---- MODULE Spec2Model ----
(***************************************************************************)
(* Interactive canvas engine of deeplinkview.                              *)
(*                                                                         *)
(* Two canvases are modelled, chosen once at start-up (variable canvas):   *)
(*   "links"  InteractiveLinksCanvas  (src/links_canvas.py, driven by      *)
(*            LinksViewer in src/main_window.py)                           *)
(*   "graph"  InteractiveGraph        (src/app.py)                         *)
(*                                                                         *)
(* Python floats are modelled as exact rationals <<n, d>> (d > 0, lowest   *)
(* terms), so that no division is rounded.  Colours, texts and cursors are *)
(* not modelled: an artist is the geometry it draws.                       *)
(***************************************************************************)
EXTENDS Integers, Sequences, FiniteSets, TLC

(***************************************************************************)
(* Exact rational arithmetic (the Python float operations of the source).  *)
(***************************************************************************)
Abs(a) == IF a < 0 THEN -a ELSE a

RECURSIVE GCD(_, _)
GCD(a, b) == IF b = 0 THEN a ELSE GCD(b, a % b)

\* The rational n/d in lowest terms with a positive denominator (d # 0).
Rat(n, d) ==
    LET g == GCD(Abs(n), Abs(d))
        s == IF d < 0 THEN -1 ELSE 1
    IN  << s * (n \div g), s * (d \div g) >>

Zero == << 0, 1 >>
One == << 1, 1 >>

RAdd(p, q) ==
    LET g == GCD(p[2], q[2])
    IN  Rat(p[1] * (q[2] \div g) + q[1] * (p[2] \div g), (p[2] \div g) * q[2])

RNeg(p) == << -p[1], p[2] >>

RSub(p, q) == RAdd(p, RNeg(q))

\* Cross-cancel before multiplying to keep the integers small.
RMul(p, q) ==
    LET g1 == GCD(Abs(p[1]), q[2])
        g2 == GCD(Abs(q[1]), p[2])
    IN  IF p[1] = 0 \/ q[1] = 0 THEN Zero
        ELSE << (p[1] \div g1) * (q[1] \div g2), (p[2] \div g2) * (q[2] \div g1) >>

\* p / q for q # 0.
RDiv(p, q) == RMul(p, IF q[1] < 0 THEN << -q[2], -q[1] >> ELSE << q[2], q[1] >>)

\* a/b <= c/d for b, d > 0, by comparing the integer parts and then the
\* reciprocals of the fractional parts, so that no product is formed.
RECURSIVE FracLe(_, _, _, _)
FracLe(a, b, c, d) ==
    IF a \div b # c \div d THEN a \div b < c \div d
    ELSE IF a % b = 0 THEN TRUE
    ELSE IF c % d = 0 THEN FALSE
    ELSE FracLe(d, c % d, b, a % b)

RLe(p, q) == FracLe(p[1], p[2], q[1], q[2])

RLt(p, q) == RLe(p, q) /\ p # q

RMax(p, q) == IF RLe(p, q) THEN q ELSE p

RMin(p, q) == IF RLe(p, q) THEN p ELSE q

RAbs(p) == << Abs(p[1]), p[2] >>

RInt(k) == << k, 1 >>

\* The least / greatest element of a non-empty finite set of rationals.
RSetMin(S) == CHOOSE m \in S : \A o \in S : RLe(m, o)

RSetMax(S) == CHOOSE m \in S : \A o \in S : RLe(o, m)

Origin == << Zero, Zero >>

(***************************************************************************)
(* Device metrics.                                                         *)
(***************************************************************************)
\* plt.subplots(figsize=(10, 8)); fig.dpi is matplotlib's default.
FigWidthInches == 10

FigHeightInches == 8

Dpi == 100

FigWidthPx == FigWidthInches * Dpi

FigHeightPx == FigHeightInches * Dpi

\* The axes' box inside the figure, in pixels (matplotlib's default subplot
\* box: left 0.125, right 0.9, bottom 0.11, top 0.88 of the figure).
AxLeft == (FigWidthPx * 125) \div 1000

AxWidth == (FigWidthPx * 775) \div 1000

AxBottom == (FigHeightPx * 11) \div 100

AxHeight == (FigHeightPx * 77) \div 100

\* Visualization settings of the links canvas: node_size = 0.15.
node_size == Rat(15, 100)

(***************************************************************************)
(* Python values.                                                          *)
(***************************************************************************)
\* None for a link id (selected_link, hovered_link, a hit test's miss); link
\* ids start at 1, so 0 is no id, and it is falsy as None is.
None == 0

\* None for a node label (selected_node, hovered_node); labels are non-empty
\* strings, so the empty string is no label, and it is falsy as None is.
NoNode == ""

\* An optional value: <<>> is None, <<v>> is v (a link's 'from' and 'to',
\* pan_start, pan_origin).
Nothing == << >>

Some(v) == << v >>

\* A dict whose iteration order matters is a sequence of <<key, value>>.
DKeys(d) == { d[i][1] : i \in 1..Len(d) }

DHas(d, k) == \E i \in 1..Len(d) : d[i][1] = k

\* dict.get(k, default)
DGet(d, k, default) ==
    IF DHas(d, k) THEN d[CHOOSE i \in 1..Len(d) : d[i][1] = k][2] ELSE default

\* An assignment that writes v under every key of d.
DSetAll(d, k, v) ==
    IF DHas(d, k)
    THEN [ i \in 1..Len(d) |-> << d[i][1], v >> ]
    ELSE Append(d, << k, v >>)

\* An assignment that moves the key to the end of the dict.
DSetLast(d, k, v) ==
    LET others == { i \in 1..Len(d) : d[i][1] # k }
        rest == [ j \in 1..Cardinality(others) |->
                    d[CHOOSE i \in others :
                        Cardinality({ h \in others : h < i }) = j - 1] ]
    IN  Append(rest, << k, v >>)

\* d[k] = v: an existing key keeps its place, a new key goes last.
DSet(d, k, v) ==
    IF DHas(d, k)
    THEN [ i \in 1..Len(d) |-> IF d[i][1] = k THEN << k, v >> ELSE d[i] ]
    ELSE Append(d, << k, v >>)

DValues(d) == { d[i][2] : i \in 1..Len(d) }

\* The ascending sequence of a finite set of integers.
RECURSIVE Sorted(_)
Sorted(S) ==
    IF S = {} THEN << >>
    ELSE LET m == CHOOSE x \in S : \A y \in S : x <= y
         IN  << m >> \o Sorted(S \ {m})

(***************************************************************************)
(* State.                                                                  *)
(***************************************************************************)
VARIABLES
    canvas,          \* "links" or "graph": which canvas class is running
    links,           \* links canvas: id -> [from, to], each optional
    link_positions,  \* links canvas: ordered dict id -> <<x, y>>
    link_artists,    \* links canvas: id -> sequence of shapes
    selected_link,
    hovered_link,
    graph,           \* graph canvas: [nodes: sequence, edges: set of pairs]
    pos,             \* graph canvas: ordered dict node -> <<x, y>>
    node_artists,    \* graph canvas: node -> circle shape
    edge_artists,    \* graph canvas: edge -> arrow shape
    selected_node,
    hovered_node,
    dragging,
    pan_start,       \* Nothing or Some(<<x, y>>) in pixels
    pan_origin,      \* Nothing or Some(<<xlim, ylim>>)
    zoom_level,
    xlim,            \* self.ax's x limits <<lo, hi>>
    ylim,
    ax_children,     \* the bag of shapes on self.ax
    zoom_slider,     \* the window's zoom slider value, in percent
    last,            \* history: what the last handler did
    nChanges         \* history: viewport and position changes so far

linksVars == << links, link_positions, link_artists, selected_link, hovered_link >>

graphVars == << graph, pos, node_artists, edge_artists, selected_node, hovered_node >>

viewVars == << zoom_level, xlim, ylim >>

panVars == << pan_start, pan_origin >>

\* last.op stands before last: the events of different operations are values
\* of different kinds (a flag, a slider value, a mouse event), which are
\* compared only once the operations are the same.
vars == << canvas, linksVars, graphVars, dragging, panVars, viewVars,
           ax_children, zoom_slider, nChanges, last.op, last >>

\* A shape on the axes: a circle (centre p, radius r), an arrow (from p to
\* q), a self-link's curve and its arrow head (around p, width r).
Shape(kind, p, q, r) == [ kind |-> kind, p |-> p, q |-> q, r |-> r ]

\* Bags of shapes, as functions shape -> count.
BagAdd(b, s) ==
    IF s \in DOMAIN b THEN [ b EXCEPT ![s] = @ + 1 ] ELSE b @@ (s :> 1)

BagRemove(b, s) ==
    IF s \notin DOMAIN b THEN b
    ELSE IF b[s] = 1 THEN [ t \in DOMAIN b \ {s} |-> b[t] ]
    ELSE [ b EXCEPT ![s] = @ - 1 ]

RECURSIVE BagAddAll(_, _)
BagAddAll(b, ss) ==
    IF ss = << >> THEN b ELSE BagAddAll(BagAdd(b, Head(ss)), Tail(ss))

RECURSIVE BagRemoveAll(_, _)
BagRemoveAll(b, ss) ==
    IF ss = << >> THEN b ELSE BagRemoveAll(BagRemove(b, Head(ss)), Tail(ss))

NoShapes == << >>

\* Axes.clear(): no children, limits back to (0, 1).
ClearedLim == << Zero, One >>

\* The canvas object: every field of self, as one record.
Self ==
    [ links |-> links, link_positions |-> link_positions,
      link_artists |-> link_artists, selected_link |-> selected_link,
      hovered_link |-> hovered_link,
      graph |-> graph, pos |-> pos, node_artists |-> node_artists,
      edge_artists |-> edge_artists, selected_node |-> selected_node,
      hovered_node |-> hovered_node,
      dragging |-> dragging, pan_start |-> pan_start, pan_origin |-> pan_origin,
      zoom_level |-> zoom_level, xlim |-> xlim, ylim |-> ylim,
      ax_children |-> ax_children ]

\* The fields of self after a handler has run.
Commit(c) ==
    /\ links' = c.links
    /\ link_positions' = c.link_positions
    /\ link_artists' = c.link_artists
    /\ selected_link' = c.selected_link
    /\ hovered_link' = c.hovered_link
    /\ graph' = c.graph
    /\ pos' = c.pos
    /\ node_artists' = c.node_artists
    /\ edge_artists' = c.edge_artists
    /\ selected_node' = c.selected_node
    /\ hovered_node' = c.hovered_node
    /\ dragging' = c.dragging
    /\ pan_start' = c.pan_start
    /\ pan_origin' = c.pan_origin
    /\ zoom_level' = c.zoom_level
    /\ xlim' = c.xlim
    /\ ylim' = c.ylim
    /\ ax_children' = c.ax_children

(***************************************************************************)
(* Pointer events.  A mouse event carries the pixel (x, y), measured from  *)
(* the figure's lower left corner, whether it lies in the axes (inaxes),   *)
(* and the data coordinates matplotlib derives from the pixel with the     *)
(* axes' limits at the time of the event.                                  *)
(***************************************************************************)
XData(c, px) ==
    RAdd(c.xlim[1], RMul(Rat(px - AxLeft, AxWidth), RSub(c.xlim[2], c.xlim[1])))

YData(c, py) ==
    RAdd(c.ylim[1], RMul(Rat(py - AxBottom, AxHeight), RSub(c.ylim[2], c.ylim[1])))

\* Where the axes draw the data point (x, y): the inverse of XData, YData.
XPixel(c, x) ==
    RAdd(RInt(AxLeft),
         RMul(RInt(AxWidth), RDiv(RSub(x, c.xlim[1]), RSub(c.xlim[2], c.xlim[1]))))

YPixel(c, y) ==
    RAdd(RInt(AxBottom),
         RMul(RInt(AxHeight), RDiv(RSub(y, c.ylim[1]), RSub(c.ylim[2], c.ylim[1]))))

MouseEvent(inaxes, x, y, button) ==
    [ inaxes |-> inaxes, x |-> x, y |-> y, button |-> button ]

\* (event.xdata, event.ydata) of an event inside the axes.
EventData(c, event) == << XData(c, event.x), YData(c, event.y) >>

(***************************************************************************)
(* Geometry shared by both canvases.                                       *)
(***************************************************************************)
\* node_radius = 15.0 / dpi * ((x_data_per_inch + y_data_per_inch) / 2)
NodeRadius(c) ==
    LET x_data_per_inch == RDiv(RSub(c.xlim[2], c.xlim[1]), RInt(FigWidthInches))
        y_data_per_inch == RDiv(RSub(c.ylim[2], c.ylim[1]), RInt(FigHeightInches))
    IN  RMul(Rat(15, Dpi), RDiv(RAdd(x_data_per_inch, y_data_per_inch), RInt(2)))

\* (lx - x)**2 + (ly - y)**2 <= node_radius**2.  A point further than the
\* radius along one axis is outside; within it, dx**2 <= r**2 - dy**2 is
\* decided as |dx| / (r + |dy|) <= (r - |dy|) / |dx|, which keeps the
\* integers small.
InRadius(l, p, node_radius) ==
    LET dx == RAbs(RSub(l[1], p[1]))
        dy == RAbs(RSub(l[2], p[2]))
        r == RAbs(node_radius)
    IN  /\ RLe(dx, r)
        /\ RLe(dy, r)
        /\ \/ dx = Zero
           \/ RLe(RDiv(dx, RAdd(r, dy)), RDiv(RSub(r, dy), dx))

\* The first key of an ordered dict of positions within the radius of p, or
\* none.
FirstInRadius(d, p, node_radius, none) ==
    LET hits == { i \in 1..Len(d) : InRadius(d[i][2], p, node_radius) }
    IN  IF hits = {} THEN none
        ELSE d[CHOOSE i \in hits : \A j \in hits : i <= j][1]

Midpoint(p, q) ==
    << RDiv(RAdd(p[1], q[1]), RInt(2)), RDiv(RAdd(p[2], q[2]), RInt(2)) >>

(***************************************************************************)
(* InteractiveLinksCanvas (src/links_canvas.py).                           *)
(***************************************************************************)
\* int(s) of the CSV fields used here; any other field raises ValueError.
IntOf == ( "0" :> 0 ) @@ ( "1" :> 1 ) @@ ( "2" :> 2 ) @@ ( "3" :> 3 )
         @@ ( " 1" :> 1 ) @@ ( "4" :> 4 )

\* s.strip() is empty
IsBlank(s) == s \in { "", " " }

\* A field parse that takes a non-numeric field for an absent value.
ParseFieldLenient(s) ==
    IF IsBlank(s) THEN [ ok |-> TRUE, val |-> Nothing ]
    ELSE IF s \in DOMAIN IntOf THEN [ ok |-> TRUE, val |-> Some(IntOf[s]) ]
    ELSE [ ok |-> TRUE, val |-> Nothing ]

\* int(field) if field.strip() else None; ok is FALSE where int() raises.
ParseField(s) ==
    IF IsBlank(s) THEN [ ok |-> TRUE, val |-> Nothing ]
    ELSE IF s \in DOMAIN IntOf THEN [ ok |-> TRUE, val |-> Some(IntOf[s]) ]
    ELSE [ ok |-> FALSE, val |-> Nothing ]

\* The links a CSV's data rows give: row k (1-based, after the header) with
\* at least two columns and two parsable fields is link k.
ParseLinks(rows) ==
    LET data == IF rows = << >> THEN << >> ELSE Tail(rows)
        kept == { k \in 1..Len(data) :
                    /\ Len(data[k]) >= 2
                    /\ ParseField(data[k][1]).ok
                    /\ ParseField(data[k][2]).ok }
    IN  [ k \in kept |-> [ from |-> ParseField(data[k][1]).val,
                           to |-> ParseField(data[k][2]).val ] ]

\* get_stats(): the number of links and the number of links whose from
\* equals their to.
get_stats(c) ==
    [ links |-> Cardinality(DOMAIN c.links),
      self_links |-> Cardinality({ id \in DOMAIN c.links :
                                     c.links[id].from = c.links[id].to }) ]

L_clear_artists(c) ==
    [ c EXCEPT !.link_artists = << >>,
               !.ax_children = NoShapes,
               !.xlim = ClearedLim,
               !.ylim = ClearedLim ]

\* self.link_positions.get(ref, (0, 0)) for an optional id
LinkPosGet(c, ref) ==
    IF ref = Nothing THEN Origin ELSE DGet(c.link_positions, ref[1], Origin)

_draw_self_link(c, link_id, x, y) ==
    LET a == RMul(node_size, Rat(7, 10))
    IN  << Shape("loop", << x, y >>, << x, y >>, a),
           Shape("loop_arrow", << x, y >>, << x, y >>, a) >>

\* The end of a regular link's arrow on the side that references ref: the
\* midpoint of the referenced link's own ends when that link's from and to
\* differ, else the referenced id's position.
LinkEndPoint(c, ref) ==
    IF ref[1] \in DOMAIN c.links /\ c.links[ref[1]].from # c.links[ref[1]].to
    THEN Midpoint(LinkPosGet(c, c.links[ref[1]].from),
                  LinkPosGet(c, c.links[ref[1]].to))
    ELSE LinkPosGet(c, ref)

_draw_regular_link(c, link_id, from_id, to_id) ==
    << Shape("arrow", LinkEndPoint(c, from_id), LinkEndPoint(c, to_id), Zero) >>

_draw_link_as_node(c, link_id, x, y) ==
    << Shape("circle", << x, y >>, << x, y >>, RDiv(node_size, RInt(2))) >>

\* The artist(s) _create_link_artist and _update_link_artist draw for a link
\* placed at p.
LinkArtistAt(c, link_id, p) ==
    LET from_id == c.links[link_id].from
        to_id == c.links[link_id].to
    IN  IF from_id = Some(link_id) /\ to_id = Some(link_id)
        THEN _draw_self_link(c, link_id, p[1], p[2])
        ELSE IF from_id # Nothing /\ to_id # Nothing
        THEN _draw_regular_link(c, link_id, from_id, to_id)
        ELSE _draw_link_as_node(c, link_id, p[1], p[2])

_create_link_artist(c, link_id) ==
    LET artist == LinkArtistAt(c, link_id, DGet(c.link_positions, link_id, Origin))
    IN  [ c EXCEPT !.link_artists = (link_id :> artist) @@ @,
                   !.ax_children = BagAddAll(@, artist) ]

RECURSIVE CreateEach(_, _)
CreateEach(c, ids) ==
    IF ids = << >> THEN c
    ELSE CreateEach(_create_link_artist(c, Head(ids)), Tail(ids))

L_create_artists(c) == CreateEach(c, Sorted(DOMAIN c.links))

\* update_artists only recolours the artists.
L_update_artists(c) == c

\* A reset_view that, without positions, goes back to the limits of cleared
\* axes.
reset_view_cleared(c) ==
    IF c.link_positions = << >>
    THEN [ c EXCEPT !.xlim = << Zero, One >>, !.ylim = << Zero, One >>,
                    !.zoom_level = One ]
    ELSE LET all_x == { p[1] : p \in DValues(c.link_positions) }
             all_y == { p[2] : p \in DValues(c.link_positions) }
             x_min == RSetMin(all_x)
             x_max == RSetMax(all_x)
             y_min == RSetMin(all_y)
             y_max == RSetMax(all_y)
             x_padding == RMax(Rat(2, 10), RMul(RSub(x_max, x_min), Rat(2, 10)))
             y_padding == RMax(Rat(2, 10), RMul(RSub(y_max, y_min), Rat(2, 10)))
         IN  [ c EXCEPT !.xlim = << RSub(x_min, x_padding), RAdd(x_max, x_padding) >>,
                        !.ylim = << RSub(y_min, y_padding), RAdd(y_max, y_padding) >>,
                        !.zoom_level = One ]

reset_view(c) ==
    IF c.link_positions = << >> THEN c
    ELSE LET all_x == { p[1] : p \in DValues(c.link_positions) }
             all_y == { p[2] : p \in DValues(c.link_positions) }
             x_min == RSetMin(all_x)
             x_max == RSetMax(all_x)
             y_min == RSetMin(all_y)
             y_max == RSetMax(all_y)
             x_padding == RMax(Rat(2, 10), RMul(RSub(x_max, x_min), Rat(2, 10)))
             y_padding == RMax(Rat(2, 10), RMul(RSub(y_max, y_min), Rat(2, 10)))
         IN  [ c EXCEPT !.xlim = << RSub(x_min, x_padding), RAdd(x_max, x_padding) >>,
                        !.ylim = << RSub(y_min, y_padding), RAdd(y_max, y_padding) >>,
                        !.zoom_level = One ]

\* set_zoom(zoom_level): the current width and height divided by zoom_level,
\* around the current centre.
set_zoom(c, level) ==
    LET center_x == RDiv(RAdd(c.xlim[1], c.xlim[2]), RInt(2))
        center_y == RDiv(RAdd(c.ylim[1], c.ylim[2]), RInt(2))
        width == RDiv(RSub(c.xlim[2], c.xlim[1]), level)
        height == RDiv(RSub(c.ylim[2], c.ylim[1]), level)
    IN  [ c EXCEPT !.xlim = << RSub(center_x, RDiv(width, RInt(2))),
                               RAdd(center_x, RDiv(width, RInt(2))) >>,
                   !.ylim = << RSub(center_y, RDiv(height, RInt(2))),
                               RAdd(center_y, RDiv(height, RInt(2))) >>,
                   !.zoom_level = level ]

\* LinksViewer.adjust_zoom(value), the slider's valueChanged slot.
L_adjust_zoom(c, value) == set_zoom(c, Rat(value, 100))

\* The five layouts apply_layout computes, the spring layout it computes as
\* the lookup's default, and the spring layout of its except branch: prov
\* gives each call's outcome, [ok, pos].
LayoutKinds == { "spring", "circular", "random", "kamada_kawai", "spectral" }

L_apply_layout(c, layout_type, prov) ==
    IF c.links = << >> THEN c
    ELSE LET tried == \A k \in LayoutKinds \cup { "default" } : prov[k].ok
             positions ==
                 IF tried
                 THEN IF layout_type \in LayoutKinds THEN prov[layout_type].pos
                      ELSE prov["default"].pos
                 ELSE prov["fallback"].pos
         IN  reset_view(L_create_artists(L_clear_artists(
                 [ c EXCEPT !.link_positions = positions ])))

\* [ok, c]: the return value and the canvas after the call.
load_links_keeping_positions(c, file, prov) ==
    LET c0 == L_clear_artists([ c EXCEPT !.links = << >> ])
        parsed == ParseLinks(file.rows)
    IN  IF ~file.readable \/ parsed = << >>
        THEN [ ok |-> FALSE, c |-> c0 ]
        ELSE [ ok |-> TRUE,
               c |-> L_update_artists(L_create_artists(
                         L_apply_layout([ c0 EXCEPT !.links = parsed ], "spring", prov))) ]

load_links_from_csv(c, file, prov) ==
    LET c0 == L_clear_artists([ c EXCEPT !.links = << >>, !.link_positions = << >> ])
        parsed == ParseLinks(file.rows)
    IN  IF ~file.readable \/ parsed = << >>
        THEN [ ok |-> FALSE, c |-> c0 ]
        ELSE [ ok |-> TRUE,
               c |-> L_update_artists(L_create_artists(
                         L_apply_layout([ c0 EXCEPT !.links = parsed ], "spring", prov))) ]

_get_link_at_position(c, p) ==
    IF p[1] = Zero \/ p[2] = Zero THEN None
    ELSE IF RSub(c.xlim[2], c.xlim[1]) = Zero \/ RSub(c.ylim[2], c.ylim[1]) = Zero
    THEN None
    ELSE FirstInRadius(c.link_positions, p, NodeRadius(c), None)

\* An _update_link_artist that takes a link for a loop when its two ends are
\* equal, whatever its own id.
_update_link_artist_by_ends(c, link_id) ==
    IF link_id \notin DOMAIN c.link_artists THEN c
    ELSE LET from_id == c.links[link_id].from
             to_id == c.links[link_id].to
             p == DGet(c.link_positions, link_id, Origin)
             artist == IF from_id = to_id
                       THEN _draw_self_link(c, link_id, p[1], p[2])
                       ELSE IF from_id # Nothing /\ to_id # Nothing
                       THEN _draw_regular_link(c, link_id, from_id, to_id)
                       ELSE _draw_link_as_node(c, link_id, p[1], p[2])
         IN  [ c EXCEPT !.link_artists = (link_id :> artist) @@ @,
                        !.ax_children =
                            BagAddAll(BagRemoveAll(@, c.link_artists[link_id]), artist) ]

\* _update_link_artist: the old artist off the axes, a new one at the
\* link's position, by the method's own test of the link's kind.
_update_link_artist(c, link_id) ==
    IF link_id \notin DOMAIN c.link_artists THEN c
    ELSE LET from_id == c.links[link_id].from
             to_id == c.links[link_id].to
             p == DGet(c.link_positions, link_id, Origin)
             artist == IF from_id = to_id /\ to_id = Some(link_id)
                       THEN _draw_self_link(c, link_id, p[1], p[2])
                       ELSE IF from_id # Nothing /\ to_id # Nothing
                       THEN _draw_regular_link(c, link_id, from_id, to_id)
                       ELSE _draw_link_as_node(c, link_id, p[1], p[2])
         IN  [ c EXCEPT !.link_artists = (link_id :> artist) @@ @,
                        !.ax_children =
                            BagAddAll(BagRemoveAll(@, c.link_artists[link_id]), artist) ]

\* bool(self.pan_start): None and the null QPoint (0, 0) are falsy.
PanStarted(c) == c.pan_start # Nothing /\ c.pan_start[1] # << 0, 0 >>

\* A pan that computes both ends of each new range from the snapshot's low
\* end.
PanToLowEnd(c, event) ==
    LET dx_pixels == event.x - c.pan_start[1][1]
        dy_pixels == event.y - c.pan_start[1][2]
        x_data_per_pixel == RDiv(RSub(c.xlim[2], c.xlim[1]), RInt(FigWidthInches * Dpi))
        y_data_per_pixel == RDiv(RSub(c.ylim[2], c.ylim[1]), RInt(FigHeightInches * Dpi))
        dx_data == RMul(RInt(dx_pixels), x_data_per_pixel)
        dy_data == RMul(RInt(dy_pixels), y_data_per_pixel)
        origin == c.pan_origin[1]
    IN  [ c EXCEPT !.xlim = << RSub(origin[1][1], dx_data), RSub(origin[1][1], dx_data) >>,
                   !.ylim = << RAdd(origin[2][1], dy_data), RAdd(origin[2][1], dy_data) >> ]

\* The pan branch of on_motion, the same in both canvases: the pixel delta
\* from pan_start, scaled by the current limits' data units per figure
\* pixel, applied to pan_origin.
PanTo(c, event) ==
    LET dx_pixels == event.x - c.pan_start[1][1]
        dy_pixels == event.y - c.pan_start[1][2]
        x_data_per_pixel == RDiv(RSub(c.xlim[2], c.xlim[1]), RInt(FigWidthInches * Dpi))
        y_data_per_pixel == RDiv(RSub(c.ylim[2], c.ylim[1]), RInt(FigHeightInches * Dpi))
        dx_data == RMul(RInt(dx_pixels), x_data_per_pixel)
        dy_data == RMul(RInt(dy_pixels), y_data_per_pixel)
        origin == c.pan_origin[1]
    IN  [ c EXCEPT !.xlim = << RSub(origin[1][1], dx_data), RSub(origin[1][2], dx_data) >>,
                   !.ylim = << RAdd(origin[2][1], dy_data), RAdd(origin[2][2], dy_data) >> ]

\* The limits on_scroll sets, the same in both canvases: the new width and
\* height centred on the mouse's data point, or on the view's centre along
\* an axis whose data coordinate is falsy.
ZoomFactor(button) == IF button = "up" THEN Rat(125, 100) ELSE Rat(8, 10)

ScrollToUncounted(c, event) ==
    LET zoom_factor == ZoomFactor(event.button)
        data == EventData(c, event)
        mouse_x == IF data[1] # Zero THEN data[1]
                   ELSE RDiv(RAdd(c.xlim[1], c.xlim[2]), RInt(2))
        mouse_y == IF data[2] # Zero THEN data[2]
                   ELSE RDiv(RAdd(c.ylim[1], c.ylim[2]), RInt(2))
        new_width == RDiv(RSub(c.xlim[2], c.xlim[1]), zoom_factor)
        new_height == RDiv(RSub(c.ylim[2], c.ylim[1]), zoom_factor)
    IN  [ c EXCEPT !.zoom_level = @,
                   !.xlim = << RSub(mouse_x, RDiv(new_width, RInt(2))),
                               RAdd(mouse_x, RDiv(new_width, RInt(2))) >>,
                   !.ylim = << RSub(mouse_y, RDiv(new_height, RInt(2))),
                               RAdd(mouse_y, RDiv(new_height, RInt(2))) >> ]

ScrollTo(c, event) ==
    LET zoom_factor == ZoomFactor(event.button)
        data == EventData(c, event)
        mouse_x == IF data[1] # Zero THEN data[1]
                   ELSE RDiv(RAdd(c.xlim[1], c.xlim[2]), RInt(2))
        mouse_y == IF data[2] # Zero THEN data[2]
                   ELSE RDiv(RAdd(c.ylim[1], c.ylim[2]), RInt(2))
        new_width == RDiv(RSub(c.xlim[2], c.xlim[1]), zoom_factor)
        new_height == RDiv(RSub(c.ylim[2], c.ylim[1]), zoom_factor)
    IN  [ c EXCEPT !.zoom_level = RMul(@, zoom_factor),
                   !.xlim = << RSub(mouse_x, RDiv(new_width, RInt(2))),
                               RAdd(mouse_x, RDiv(new_width, RInt(2))) >>,
                   !.ylim = << RSub(mouse_y, RDiv(new_height, RInt(2))),
                               RAdd(mouse_y, RDiv(new_height, RInt(2))) >> ]

\* An on_press without the inaxes test.
L_on_press_anywhere(c, event) ==
    IF event.button = 1
    THEN LET clicked_link == _get_link_at_position(c, EventData(c, event))
         IN  IF clicked_link # None
             THEN [ c EXCEPT !.selected_link = clicked_link, !.dragging = TRUE ]
             ELSE [ c EXCEPT !.pan_start = Some(<< event.x, event.y >>),
                             !.pan_origin = Some(<< c.xlim, c.ylim >>) ]
    ELSE c

L_on_press(c, event) ==
    IF ~event.inaxes THEN c
    ELSE IF event.button = 1
    THEN LET clicked_link == _get_link_at_position(c, EventData(c, event))
         IN  IF clicked_link # None
             THEN L_update_artists([ c EXCEPT !.selected_link = clicked_link,
                                              !.dragging = TRUE ])
             ELSE [ c EXCEPT !.pan_start = Some(<< event.x, event.y >>),
                             !.pan_origin = Some(<< c.xlim, c.ylim >>) ]
    ELSE c

\* An on_release that, like on_press, returns at once outside the axes.
L_on_release_inaxes(c, event) ==
    IF ~event.inaxes THEN c
    ELSE IF event.button = 1
    THEN [ c EXCEPT !.dragging = FALSE, !.selected_link = None,
                    !.pan_start = Nothing, !.pan_origin = Nothing ]
    ELSE c

L_on_release(c, event) ==
    IF event.button = 1
    THEN L_update_artists([ c EXCEPT !.dragging = FALSE,
                                     !.selected_link = None,
                                     !.pan_start = Nothing,
                                     !.pan_origin = Nothing ])
    ELSE c

L_on_motion_releasing(c, event) ==
    IF ~event.inaxes
    THEN [ c EXCEPT !.hovered_link = None, !.dragging = FALSE ]
    ELSE IF PanStarted(c) /\ event.button = 1
    THEN PanTo(c, event)
    ELSE LET hovered == _get_link_at_position(c, EventData(c, event))
             c1 == IF hovered # c.hovered_link
                   THEN L_update_artists([ c EXCEPT !.hovered_link = hovered ])
                   ELSE c
         IN  IF c1.dragging /\ c1.selected_link # None
             THEN _update_link_artist(
                      [ c1 EXCEPT !.link_positions =
                            DSet(@, c1.selected_link, EventData(c, event)) ],
                      c1.selected_link)
             ELSE c1

L_on_motion(c, event) ==
    IF ~event.inaxes
    THEN IF c.hovered_link # None
         THEN L_update_artists([ c EXCEPT !.hovered_link = None ])
         ELSE c
    ELSE IF PanStarted(c) /\ event.button = 1
    THEN PanTo(c, event)
    ELSE LET hovered == _get_link_at_position(c, EventData(c, event))
             c1 == IF hovered # c.hovered_link
                   THEN L_update_artists([ c EXCEPT !.hovered_link = hovered ])
                   ELSE c
         IN  IF c1.dragging /\ c1.selected_link # None
             THEN _update_link_artist(
                      [ c1 EXCEPT !.link_positions =
                            DSet(@, c1.selected_link, EventData(c, event)) ],
                      c1.selected_link)
             ELSE c1

L_on_scroll(c, event) ==
    IF ~event.inaxes THEN c ELSE L_update_artists(ScrollTo(c, event))

(***************************************************************************)
(* InteractiveGraph (src/app.py).                                          *)
(***************************************************************************)
\* label.strip() of the CSV labels used here.
Strip(s) ==
    CASE s = " " -> ""
      [] s = " A" -> "A"
      [] s = "B " -> "B"
      [] OTHER -> s

\* A sequence kept as it is, repeated elements included.
KeepRepeats(q) == q

\* A sequence without its repeated elements, first occurrences kept.
RECURSIVE Dedup(_)
Dedup(q) ==
    IF q = << >> THEN << >>
    ELSE LET front == Dedup(SubSeq(q, 1, Len(q) - 1))
             x == q[Len(q)]
         IN  IF \E i \in 1..Len(front) : front[i] = x THEN front ELSE Append(front, x)

RECURSIVE Flatten(_)
Flatten(qq) == IF qq = << >> THEN << >> ELSE Head(qq) \o Flatten(Tail(qq))

\* The graph the data rows build by add_edge: a row is kept when it has two
\* columns whose stripped values are both non-empty.
ParseGraph(rows) ==
    LET data == IF rows = << >> THEN << >> ELSE Tail(rows)
        Kept(row) == /\ Len(row) >= 2
                     /\ Strip(row[1]) # ""
                     /\ Strip(row[2]) # ""
        ends == [ k \in 1..Len(data) |->
                    IF Kept(data[k])
                    THEN << Strip(data[k][1]), Strip(data[k][2]) >>
                    ELSE << >> ]
    IN  [ nodes |-> Dedup(Flatten(ends)),
          edges |-> { << Strip(data[k][1]), Strip(data[k][2]) >> :
                        k \in { j \in 1..Len(data) : Kept(data[j]) } } ]

EmptyGraph == [ nodes |-> << >>, edges |-> {} ]

\* Any enumeration of a finite set.
RECURSIVE SetToSeq(_)
SetToSeq(S) ==
    IF S = {} THEN << >>
    ELSE LET x == CHOOSE y \in S : TRUE IN << x >> \o SetToSeq(S \ {x})

G_clear_artists(c) ==
    [ c EXCEPT !.node_artists = << >>,
               !.edge_artists = << >>,
               !.ax_children = NoShapes,
               !.xlim = ClearedLim,
               !.ylim = ClearedLim ]

\* The radius update_artists gives the node circles.
RenderRadius(c) ==
    IF RSub(c.xlim[2], c.xlim[1]) = Zero \/ RSub(c.ylim[2], c.ylim[1]) = Zero
    THEN Rat(5, 100)
    ELSE NodeRadius(c)

\* A partial update that forgets the edges into the changed node.
OutEdgesOnly(c, changed_node) ==
    { e \in c.graph.edges : e[1] = changed_node }

\* The edges a partial update repositions: graph.in_edges and out_edges of
\* the changed node.
IncidentEdges(c, changed_node) ==
    { e \in c.graph.edges : e[2] = changed_node }
        \cup { e \in c.graph.edges : e[1] = changed_node }

\* update_artists(changed_node); NoNode is the default, changed_node=None.
G_update_artists(c, changed_node) ==
    IF c.graph.nodes = << >> THEN c
    ELSE LET node_radius == RenderRadius(c)
             nodes_to_update ==
                 IF changed_node # NoNode THEN { changed_node }
                 ELSE { c.graph.nodes[i] : i \in 1..Len(c.graph.nodes) }
             edges_to_update ==
                 IF changed_node # NoNode THEN IncidentEdges(c, changed_node)
                 ELSE c.graph.edges
             moved_edges == edges_to_update \cap DOMAIN c.edge_artists
             moved_nodes == nodes_to_update \cap DOMAIN c.node_artists
             new_edges == [ e \in DOMAIN c.edge_artists |->
                              IF e \in moved_edges
                              THEN Shape("arrow", DGet(c.pos, e[1], Origin),
                                         DGet(c.pos, e[2], Origin), Zero)
                              ELSE c.edge_artists[e] ]
             new_nodes == [ n \in DOMAIN c.node_artists |->
                              IF n \in moved_nodes
                              THEN Shape("circle", DGet(c.pos, n, Origin),
                                         DGet(c.pos, n, Origin), node_radius)
                              ELSE c.node_artists[n] ]
             olds == [ i \in 1..Cardinality(moved_edges) |->
                         c.edge_artists[SetToSeq(moved_edges)[i]] ]
                     \o [ i \in 1..Cardinality(moved_nodes) |->
                            c.node_artists[SetToSeq(moved_nodes)[i]] ]
             news == [ i \in 1..Cardinality(moved_edges) |->
                         new_edges[SetToSeq(moved_edges)[i]] ]
                     \o [ i \in 1..Cardinality(moved_nodes) |->
                            new_nodes[SetToSeq(moved_nodes)[i]] ]
         IN  [ c EXCEPT !.edge_artists = new_edges,
                        !.node_artists = new_nodes,
                        !.ax_children = BagAddAll(BagRemoveAll(@, olds), news) ]

\* An auto_scale with one padding rule for every extent: a fifth of it, at
\* least 0.2.
auto_scale_fifth(c) ==
    IF c.pos = << >> THEN c
    ELSE LET all_x == { p[1] : p \in DValues(c.pos) }
             all_y == { p[2] : p \in DValues(c.pos) }
             x_min == RSetMin(all_x)
             x_max == RSetMax(all_x)
             y_min == RSetMin(all_y)
             y_max == RSetMax(all_y)
             x_padding == RMax(Rat(2, 10), RMul(RSub(x_max, x_min), Rat(2, 10)))
             y_padding == RMax(Rat(2, 10), RMul(RSub(y_max, y_min), Rat(2, 10)))
         IN  G_update_artists(
                 [ c EXCEPT !.xlim = << RSub(x_min, x_padding), RAdd(x_max, x_padding) >>,
                            !.ylim = << RSub(y_min, y_padding), RAdd(y_max, y_padding) >>,
                            !.zoom_level = One ],
                 NoNode)

auto_scale(c) ==
    IF c.pos = << >> THEN c
    ELSE LET all_x == { p[1] : p \in DValues(c.pos) }
             all_y == { p[2] : p \in DValues(c.pos) }
             x_min == RSetMin(all_x)
             x_max == RSetMax(all_x)
             y_min == RSetMin(all_y)
             y_max == RSetMax(all_y)
             x_range == RSub(x_max, x_min)
             y_range == RSub(y_max, y_min)
             x_padding == IF RLt(Zero, x_range)
                          THEN RMax(Rat(2, 10), RMul(x_range, Rat(3, 10)))
                          ELSE Rat(5, 10)
             y_padding == IF RLt(Zero, y_range)
                          THEN RMax(Rat(2, 10), RMul(y_range, Rat(3, 10)))
                          ELSE Rat(5, 10)
         IN  G_update_artists(
                 [ c EXCEPT !.xlim = << RSub(x_min, x_padding), RAdd(x_max, x_padding) >>,
                            !.ylim = << RSub(y_min, y_padding), RAdd(y_max, y_padding) >>,
                            !.zoom_level = One ],
                 NoNode)

\* create_artists: a new arrow per edge and a new circle per node, at dummy
\* coordinates, each put on the axes and into the artist dicts.
G_create_artists(c) ==
    LET arrow == Shape("arrow", Origin, Origin, Zero)
        circle == Shape("circle", Origin, Origin, One)
        nodes == { c.graph.nodes[i] : i \in 1..Len(c.graph.nodes) }
    IN  [ c EXCEPT !.edge_artists = [ e \in c.graph.edges |-> arrow ] @@ @,
                   !.node_artists = [ n \in nodes |-> circle ] @@ @,
                   !.ax_children =
                       BagAddAll(BagAddAll(@, [ i \in 1..Cardinality(c.graph.edges) |-> arrow ]),
                                 [ i \in 1..Cardinality(nodes) |-> circle ]) ]

\* apply_layout(layout_type): prov is the outcome [ok, pos] of the one
\* layout it calls; an unknown layout_type calls none and keeps self.pos.
\* [ok, c]: ok is FALSE when the layout's exception leaves the method.
\* An apply_layout that raises when the graph has no nodes.
G_apply_layout_checked(c, layout_type, prov) ==
    IF c.graph.nodes = << >> THEN [ ok |-> FALSE, c |-> c ]
    ELSE IF layout_type \in LayoutKinds /\ ~prov.ok THEN [ ok |-> FALSE, c |-> c ]
    ELSE LET c1 == IF layout_type \in LayoutKinds
                   THEN [ c EXCEPT !.pos = prov.pos ] ELSE c
         IN  [ ok |-> TRUE,
               c |-> G_update_artists(G_create_artists(auto_scale(G_clear_artists(c1))),
                                      NoNode) ]

G_apply_layout(c, layout_type, prov) ==
    IF c.graph.nodes = << >> THEN [ ok |-> TRUE, c |-> c ]
    ELSE IF layout_type \in LayoutKinds /\ ~prov.ok THEN [ ok |-> FALSE, c |-> c ]
    ELSE LET c1 == IF layout_type \in LayoutKinds
                   THEN [ c EXCEPT !.pos = prov.pos ] ELSE c
         IN  [ ok |-> TRUE,
               c |-> G_update_artists(G_create_artists(auto_scale(G_clear_artists(c1))),
                                      NoNode) ]

\* [ok, c]: the return value and the canvas after the call.
load_graph_from_csv(c, file, prov) ==
    LET c0 == G_clear_artists([ c EXCEPT !.graph = EmptyGraph, !.pos = << >> ])
        header_ok == file.rows # << >> /\ Len(file.rows[1]) >= 2
        parsed == ParseGraph(file.rows)
    IN  IF ~file.readable \/ ~header_ok \/ parsed.nodes = << >>
        THEN [ ok |-> FALSE, c |-> c0 ]
        ELSE LET laid == G_apply_layout([ c0 EXCEPT !.graph = parsed ], "spring", prov)
             IN  IF ~laid.ok THEN [ ok |-> FALSE, c |-> laid.c ]
                 ELSE [ ok |-> TRUE,
                        c |-> G_update_artists(G_create_artists(auto_scale(laid.c)),
                                               NoNode) ]

get_node_at_position(c, p) ==
    IF p[1] = Zero \/ p[2] = Zero THEN NoNode
    ELSE IF RSub(c.xlim[2], c.xlim[1]) = Zero \/ RSub(c.ylim[2], c.ylim[1]) = Zero
    THEN NoNode
    ELSE FirstInRadius(c.pos, p, NodeRadius(c), NoNode)

G_on_press(c, event) ==
    IF ~event.inaxes THEN c
    ELSE IF event.button = 1
    THEN LET node == get_node_at_position(c, EventData(c, event))
         IN  IF node # NoNode
             THEN G_update_artists([ c EXCEPT !.selected_node = node,
                                              !.dragging = TRUE ], NoNode)
             ELSE [ c EXCEPT !.pan_start = Some(<< event.x, event.y >>),
                             !.pan_origin = Some(<< c.xlim, c.ylim >>) ]
    ELSE c

G_on_release_selected(c, event) ==
    IF event.button = 1
    THEN G_update_artists([ c EXCEPT !.dragging = FALSE,
                                     !.pan_start = Nothing,
                                     !.pan_origin = Nothing ], NoNode)
    ELSE c

G_on_release(c, event) ==
    IF event.button = 1
    THEN G_update_artists([ c EXCEPT !.dragging = FALSE,
                                     !.selected_node = NoNode,
                                     !.pan_start = Nothing,
                                     !.pan_origin = Nothing ], NoNode)
    ELSE c

G_on_motion(c, event) ==
    IF ~event.inaxes
    THEN IF c.hovered_node # NoNode
         THEN G_update_artists([ c EXCEPT !.hovered_node = NoNode ], NoNode)
         ELSE c
    ELSE IF PanStarted(c) /\ event.button = 1
    THEN PanTo(c, event)
    ELSE LET node == get_node_at_position(c, EventData(c, event))
             c1 == IF node # c.hovered_node
                   THEN G_update_artists([ c EXCEPT !.hovered_node = node ], NoNode)
                   ELSE c
         IN  IF c1.dragging /\ c1.selected_node # NoNode
             THEN G_update_artists(
                      [ c1 EXCEPT !.pos = DSet(@, c1.selected_node, EventData(c, event)) ],
                      c1.selected_node)
             ELSE c1

G_on_scroll(c, event) ==
    IF ~event.inaxes THEN c ELSE G_update_artists(ScrollTo(c, event), NoNode)

\* GraphViewer.adjust_zoom(value), the slider's valueChanged slot: the
\* padded extent of the current positions divided by value / 100, around
\* the current centre.
G_adjust_zoom(c, value) ==
    IF c.graph.nodes = << >> \/ c.pos = << >> THEN c
    ELSE LET new_zoom_level == Rat(value, 100)
             current_center_x == RDiv(RAdd(c.xlim[1], c.xlim[2]), RInt(2))
             current_center_y == RDiv(RAdd(c.ylim[1], c.ylim[2]), RInt(2))
             all_x == { p[1] : p \in DValues(c.pos) }
             all_y == { p[2] : p \in DValues(c.pos) }
             x_range == RSub(RSetMax(all_x), RSetMin(all_x))
             y_range == RSub(RSetMax(all_y), RSetMin(all_y))
             x_padding == IF RLt(Zero, x_range)
                          THEN RMax(Rat(2, 10), RMul(x_range, Rat(3, 10)))
                          ELSE Rat(5, 10)
             y_padding == IF RLt(Zero, y_range)
                          THEN RMax(Rat(2, 10), RMul(y_range, Rat(3, 10)))
                          ELSE Rat(5, 10)
             base_width == RAdd(x_range, RMul(RInt(2), x_padding))
             base_height == RAdd(y_range, RMul(RInt(2), y_padding))
             zoomed_width == RDiv(base_width, new_zoom_level)
             zoomed_height == RDiv(base_height, new_zoom_level)
         IN  G_update_artists(
                 [ c EXCEPT !.xlim = << RSub(current_center_x, RDiv(zoomed_width, RInt(2))),
                                        RAdd(current_center_x, RDiv(zoomed_width, RInt(2))) >>,
                            !.ylim = << RSub(current_center_y, RDiv(zoomed_height, RInt(2))),
                                        RAdd(current_center_y, RDiv(zoomed_height, RInt(2))) >>,
                            !.zoom_level = new_zoom_level ],
                 NoNode)

(***************************************************************************)
(* Inputs: CSV files, layout results, pointer events.                      *)
(***************************************************************************)
\* zoom_slider.setValue(100) in init_ui; the slider runs from 10 to 200.
SliderDefault == 100

\* Viewport and position changes explored in one session with the slider.
MaxViewChanges == 1

\* Viewport and position changes (scroll, pan move, drag move) explored in
\* one session.
MaxChanges == 2

CsvFile(readable, rows) == [ readable |-> readable, rows |-> rows ]

Header == << "from", "to" >>

UnreadableFile == CsvFile(FALSE, << >>)

HeaderOnlyFile == CsvFile(TRUE, << Header >>)

\* Link 1 is a self-loop, link 2 a regular link to it.
LoopFile == CsvFile(TRUE, << Header, << "1", "1" >>, << "2", "1" >> >>)

\* Link 1 is a bare node, link 2 a regular link from 1 to itself, link 3 a
\* regular link whose two ends reference link 2.
ChainFile ==
    CsvFile(TRUE, << Header, << "", " " >>, << "1", "2" >>, << "2", "2" >> >>)

\* The triangle A -> B -> C -> A.
TriangleFile ==
    CsvFile(TRUE, << Header, << "A", "B" >>, << "B", "C" >>, << "C", "A" >> >>)

LinksCsvFiles ==
    { UnreadableFile, HeaderOnlyFile, LoopFile, ChainFile,
      \* no row gives a link: a non-numeric field, a short row
      CsvFile(TRUE, << Header, << "x", "1" >>, << "7" >> >>) }

GraphCsvFiles ==
    { UnreadableFile, HeaderOnlyFile, TriangleFile,
      \* a one-column header
      CsvFile(TRUE, << << "from" >>, << "A", "B" >> >>),
      \* one node with an edge to itself
      CsvFile(TRUE, << Header, << "A", "A" >> >>),
      \* padded labels, a repeated row, a blank label, a short row
      CsvFile(TRUE, << Header, << " A", "B " >>, << "A", "B" >>, << "", "C" >>, << "A" >> >>) }

\* The points a layout places entities at.
LayoutPoints ==
    << << Rat(-3, 10), Rat(-1, 5) >>, << Rat(3, 10), Rat(1, 5) >>, Origin >>

\* Points ten units apart along the x axis and the point between them.
WidePoints ==
    << Origin, << RInt(10), Zero >>, << RInt(5), Zero >> >>

\* The position dict layout number s returns for the ids keys, in the
\* graph's node order: 0, 1 and 2 deal the points out in turn, starting s
\* points on; 3 puts every id on one point; 4 deals out the wide points and
\* 5 the wide points with x and y exchanged; 6 puts the first two ids on the
\* first point and the others on the second.
LayoutMap(keys, s) ==
    [ i \in 1..Len(keys) |->
        << keys[i],
           IF s = 3 THEN LayoutPoints[2]
           ELSE IF s = 6 THEN LayoutPoints[IF i <= 2 THEN 1 ELSE 2]
           ELSE IF s = 4 THEN WidePoints[((i - 1) % 3) + 1]
           ELSE IF s = 5 THEN << WidePoints[((i - 1) % 3) + 1][2],
                                 WidePoints[((i - 1) % 3) + 1][1] >>
           ELSE LayoutPoints[((i + s + 1) % 3) + 1] >> ]

LayoutMaps(keys, choices) == { LayoutMap(keys, s) : s \in choices }

AllLayouts == { 0, 1, 2, 3 }

\* The layout of a pointer session: the first entity on the first point.
SessionLayouts == { 1 }

\* The outcomes of the layout calls of one apply_layout of the links canvas,
\* every call returning the dict P.
ProviderRuns(maps) ==
    { [ k \in LayoutKinds \cup { "default", "fallback" } |-> [ ok |-> TRUE, pos |-> P ] ] :
        P \in maps }

\* The outcome of the layout call of one apply_layout of the graph canvas.
ProviderRun(maps) == { [ ok |-> TRUE, pos |-> P ] : P \in maps }

\* The layouts the combo box offers.
LayoutTypes == { "spring", "circular" }

\* Pixels at 1/5 and 4/5 of the axes' width, 1/4 and 3/4 of their height:
\* where a fitted view shows the first two layout points.
PixelLeft == AxLeft + AxWidth \div 5

PixelRight == AxLeft + (4 * AxWidth) \div 5

PixelLow == AxBottom + AxHeight \div 4

PixelHigh == AxBottom + (3 * AxHeight) \div 4

Pixels == { << PixelLeft, PixelLow >>, << PixelRight, PixelHigh >>, << PixelRight, PixelLow >> }

\* The middle of the axes: where a fitted view shows the third layout point.
PixelCentre == << AxLeft + AxWidth \div 2, AxBottom + AxHeight \div 2 >>

OutsideEvent(button) == MouseEvent(FALSE, 0, 0, button)

InsideEvents(pixels, buttons) ==
    { MouseEvent(TRUE, p[1], p[2], b) : p \in pixels, b \in buttons }

\* Button 1 is the primary button, 3 the right one; a motion event's button
\* is the one held, 0 for none.
PressEvents(pixels) ==
    InsideEvents(pixels, { 1 })
    \cup { MouseEvent(TRUE, PixelLeft, PixelLow, 3), OutsideEvent(1) }

ReleaseEvents ==
    { MouseEvent(TRUE, PixelLeft, PixelLow, 1), OutsideEvent(1),
      MouseEvent(TRUE, PixelLeft, PixelLow, 3) }

MotionEvents(pixels) ==
    InsideEvents(pixels, { 1 })
    \cup { MouseEvent(TRUE, PixelLeft, PixelLow, 0), OutsideEvent(1) }

ScrollEvents ==
    { MouseEvent(TRUE, PixelLeft, PixelLow, b) : b \in { "up", "down" } }
    \cup { OutsideEvent("up") }

(***************************************************************************)
(* The state machine.                                                      *)
(***************************************************************************)
\* What the last handler was and the event it got.
Last(op, event) == [ op |-> op, event |-> event ]

Init ==
    /\ canvas \in { "links", "graph" }
    /\ links = << >>
    /\ link_positions = << >>
    /\ link_artists = << >>
    /\ selected_link = None
    /\ hovered_link = None
    /\ graph = EmptyGraph
    /\ pos = << >>
    /\ node_artists = << >>
    /\ edge_artists = << >>
    /\ selected_node = NoNode
    /\ hovered_node = NoNode
    /\ dragging = FALSE
    /\ pan_start = Nothing
    /\ pan_origin = Nothing
    /\ zoom_level = One
    /\ xlim = ClearedLim
    /\ ylim = ClearedLim
    /\ ax_children = NoShapes
    /\ zoom_slider = SliderDefault
    /\ last = Last("init", Nothing)
    /\ nChanges = 0

\* Whether a handler's result c has another viewport or other positions.
Changed(c) ==
    << c.xlim, c.ylim, c.link_positions, c.pos >> # << xlim, ylim, link_positions, pos >>

\* A pointer handler's step: c is self after the handler.
Handled(c0, op, event, max) ==
    \E c \in { c0 } :
    /\ Changed(c) => nChanges < max
    /\ Commit(c)
    /\ last' = Last(op, event)
    /\ nChanges' = IF Changed(c) THEN nChanges + 1 ELSE nChanges
    /\ UNCHANGED << canvas, zoom_slider >>

\* zoom_slider.setValue(value): valueChanged, connected to adjust_zoom, is
\* emitted only when the value changes.
setValue(c, value) ==
    IF value = zoom_slider THEN c
    ELSE IF canvas = "links" THEN L_adjust_zoom(c, value) ELSE G_adjust_zoom(c, value)

\* A command's step: r is [ok, c], the command's result and self after it;
\* a command that returns normally goes on to set the slider to value.
Commanded(r0, op, value) ==
    \E r \in { r0 } :
    /\ Commit(IF r.ok THEN setValue(r.c, value) ELSE r.c)
    /\ zoom_slider' = IF r.ok THEN value ELSE zoom_slider
    /\ last' = Last(op, r.ok)
    /\ UNCHANGED << canvas, nChanges >>

\* browse_file: the user opens one of the files; the layouts return one of
\* the dicts of the layout choices for the file's ids.
LoadLinks(files, choices) ==
    /\ canvas = "links"
    /\ \E file \in files :
         \E prov \in ProviderRuns(LayoutMaps(Sorted(DOMAIN ParseLinks(file.rows)), choices)) :
            Commanded(load_links_from_csv(Self, file, prov), "load", zoom_slider)

LoadGraph(files, choices) ==
    /\ canvas = "graph"
    /\ \E file \in files :
         \E prov \in ProviderRun(LayoutMaps(ParseGraph(file.rows).nodes, choices)) :
            Commanded(load_graph_from_csv(Self, file, prov), "load", zoom_slider)

\* The Apply Layout button: the canvas's apply_layout, then
\* zoom_slider.setValue(100).
ApplyLayoutLinks(choices) ==
    /\ canvas = "links"
    /\ \E layout_type \in LayoutTypes :
         \E prov \in ProviderRuns(LayoutMaps(Sorted(DOMAIN links), choices)) :
            Commanded([ ok |-> TRUE, c |-> L_apply_layout(Self, layout_type, prov) ],
                      "apply_layout", SliderDefault)

ApplyLayoutGraph(choices) ==
    /\ canvas = "graph"
    /\ \E layout_type \in LayoutTypes :
         \E prov \in ProviderRun(LayoutMaps(graph.nodes, choices)) :
            Commanded(G_apply_layout(Self, layout_type, prov), "apply_layout",
                      SliderDefault)

\* The Reset View button: the canvas's reset_view or auto_scale, then
\* zoom_slider.setValue(100).
ResetView ==
    Commanded([ ok |-> TRUE,
                c |-> IF canvas = "links" THEN reset_view(Self) ELSE auto_scale(Self) ],
              "reset_view", SliderDefault)

\* The user moves the zoom slider to another value.
AdjustZoom(values, max) ==
    \E value \in values \ { zoom_slider } :
      \E c \in { setValue(Self, value) } :
        /\ Changed(c) => nChanges < max
        /\ Commit(c)
        /\ zoom_slider' = value
        /\ last' = Last("adjust_zoom", value)
        /\ nChanges' = IF Changed(c) THEN nChanges + 1 ELSE nChanges
        /\ UNCHANGED canvas

OnPress(events, max) ==
    \E event \in events :
      Handled(IF canvas = "links" THEN L_on_press(Self, event)
              ELSE G_on_press(Self, event), "press", event, max)

OnRelease(events, max) ==
    \E event \in events :
      Handled(IF canvas = "links" THEN L_on_release(Self, event)
              ELSE G_on_release(Self, event), "release", event, max)

OnMotion(events, max) ==
    \E event \in events :
      Handled(IF canvas = "links" THEN L_on_motion(Self, event)
              ELSE G_on_motion(Self, event), "motion", event, max)

OnScroll(events, max) ==
    \E event \in events :
      Handled(IF canvas = "links" THEN L_on_scroll(Self, event)
              ELSE G_on_scroll(Self, event), "scroll", event, max)

(***************************************************************************)
(* Spec: one session.  The user opens a file, then uses the pointer.       *)
(***************************************************************************)
\* One pixel over the first entity, one over empty canvas.
SessionPixels == { << PixelLeft, PixelLow >>, << PixelRight, PixelLow >> }

Next ==
    \/ /\ last.op = "init"
       /\ \/ LoadLinks({ ChainFile }, SessionLayouts)
          \/ LoadGraph({ TriangleFile }, SessionLayouts)
    \/ OnPress(PressEvents(SessionPixels), MaxChanges)
    \/ OnRelease(ReleaseEvents, MaxChanges)
    \/ OnMotion(MotionEvents(SessionPixels), MaxChanges)
    \/ OnScroll(ScrollEvents, MaxChanges)

Spec == Init /\ [][Next]_vars

(***************************************************************************)
(* SpecCommands: the user opens files, applies layouts and resets the      *)
(* view in any order, and moves the pointer over the canvas.               *)
(***************************************************************************)
CommandPixels == Pixels \cup { PixelCentre }

NextCommands ==
    \/ LoadLinks(LinksCsvFiles, AllLayouts)
    \/ LoadGraph(GraphCsvFiles, AllLayouts)
    \/ ApplyLayoutLinks(AllLayouts)
    \/ ApplyLayoutGraph(AllLayouts)
    \/ ResetView
    \/ OnMotion(MotionEvents(CommandPixels), 0)

SpecCommands == Init /\ [][NextCommands]_vars

(***************************************************************************)
(* SpecZoom: one session with the window's controls.  The user opens a     *)
(* file, then uses the pointer, the zoom slider and the Apply Layout and   *)
(* Reset View buttons.                                                     *)
(***************************************************************************)
\* Slider positions: zoomed out and the default.
\* The layout the Apply Layout button produces in these sessions: the one
\* that puts every id on one point (the load produced a spread one).
ZoomLayouts == { 3 }

SliderValues == { 50, SliderDefault }

\* The pointer events of the session: primary-button presses and moves at
\* the session's pixels, a move with no button held, a release, a scroll.
ZoomMotionEvents ==
    InsideEvents(SessionPixels, { 1 }) \cup { MouseEvent(TRUE, PixelLeft, PixelLow, 0) }

ZoomReleaseEvents == { OutsideEvent(1) }

ZoomScrollEvents == { MouseEvent(TRUE, PixelLeft, PixelLow, "up") }

NextZoom ==
    \/ /\ last.op = "init"
       /\ \/ LoadLinks({ ChainFile }, SessionLayouts)
          \/ LoadGraph({ TriangleFile }, SessionLayouts)
    \/ ApplyLayoutLinks(ZoomLayouts)
    \/ ApplyLayoutGraph(ZoomLayouts)
    \/ ResetView
    \/ AdjustZoom(SliderValues, MaxViewChanges)
    \/ OnPress(InsideEvents(SessionPixels, { 1 }), MaxViewChanges)
    \/ OnRelease(ZoomReleaseEvents, MaxViewChanges)
    \/ OnMotion(ZoomMotionEvents, MaxViewChanges)
    \/ OnScroll(ZoomScrollEvents, MaxViewChanges)

SpecZoom == Init /\ [][NextZoom]_vars

(***************************************************************************)
(* Loading (SpecCommands).                                                 *)
(***************************************************************************)
\* C1: a load that returns False leaves the previously loaded model
\* untouched: the links or graph, the position map and the artists after the
\* call are those before it.
C1_FailedLoadLeavesModel ==
    [][ (last'.op = "load" /\ last'.event = FALSE)
        => UNCHANGED << links, link_positions, link_artists,
                        graph, pos, node_artists, edge_artists >> ]_vars

\* C2: right after a successful load, apply_layout or reset view, the hit
\* tester asked about an entity's own stored position returns that entity.
C2_OwnPositionHitsEntity ==
    (last.op \in { "load", "apply_layout", "reset_view" } /\ last.event = TRUE)
    => /\ canvas = "links" =>
            \A i \in 1..Len(link_positions) :
                _get_link_at_position(Self, link_positions[i][2]) = link_positions[i][1]
       /\ canvas = "graph" =>
            \A i \in 1..Len(pos) :
                get_node_at_position(Self, pos[i][2]) = pos[i][1]

(***************************************************************************)
(* Partial updates while dragging (Spec).                                  *)
(***************************************************************************)
\* C3: in the links canvas every artist in link_artists has the geometry a
\* re-create from the current position map gives, also after a drag move.
C3_LinkArtistsCurrent ==
    canvas = "links"
    => \A id \in DOMAIN link_artists :
           link_artists[id] = LinkArtistAt(Self, id, DGet(link_positions, id, Origin))

C5_ZoomKeepsAnchorPixel ==
    [][ (last'.op = "scroll" /\ last'.event.inaxes)
        => LET p == EventData(Self, last'.event)
               after == [ xlim |-> xlim', ylim |-> ylim' ]
           IN  /\ XPixel(after, p[1]) = XPixel(Self, p[1])
               /\ YPixel(after, p[2]) = YPixel(Self, p[2]) ]_vars

(***************************************************************************)
(* The interaction state machine (Spec).                                   *)
(***************************************************************************)
\* C6: a drag (dragging set, or an entity selected) and a pan anchor
\* (pan_start, pan_origin) are never held together.
C6_DragExcludesPan ==
    ~ ( /\ dragging \/ selected_link # None \/ selected_node # NoNode
        /\ pan_start # Nothing \/ pan_origin # Nothing )

\* C7: a press that finds the canvas idle.  With the primary button inside
\* the axes it starts a drag of the entity under the pointer, selected and
\* with no pan anchor, or, with no entity there, a pan anchored at the press
\* pixel with the limits of that moment as snapshot and nothing selected.
\* Outside the axes or with another button it changes no interaction state.
C7_PressFromIdle ==
    [][ ( /\ last'.op = "press"
          /\ ~dragging /\ selected_link = None /\ selected_node = NoNode
          /\ pan_start = Nothing /\ pan_origin = Nothing )
        => LET event == last'.event
               link == _get_link_at_position(Self, EventData(Self, event))
               node == get_node_at_position(Self, EventData(Self, event))
               hit == IF canvas = "links" THEN link # None ELSE node # NoNode
           IN  IF event.inaxes /\ event.button = 1
               THEN IF hit
                    THEN /\ dragging'
                         /\ canvas = "links" => selected_link' = link
                         /\ canvas = "graph" => selected_node' = node
                         /\ pan_start' = Nothing /\ pan_origin' = Nothing
                    ELSE /\ pan_start' = Some(<< event.x, event.y >>)
                         /\ pan_origin' = Some(<< xlim, ylim >>)
                         /\ ~dragging'
                         /\ selected_link' = None /\ selected_node' = NoNode
               ELSE UNCHANGED << dragging, selected_link, selected_node,
                                 hovered_link, hovered_node, pan_start, pan_origin >>
      ]_vars

\* A press on empty canvas, next to a loaded model, has just started a pan.
C7_Witness ==
    /\ last.op = "press"
    /\ last.event.inaxes /\ last.event.button = 1
    /\ link_positions # << >> \/ pos # << >>
    /\ pan_start = Some(<< last.event.x, last.event.y >>)
    /\ pan_origin = Some(<< xlim, ylim >>)
    /\ ~dragging /\ selected_link = None /\ selected_node = NoNode

\* C8: after a release of the primary button, inside the axes or outside,
\* nothing is dragged or selected and no pan anchor or snapshot is held.
C8_ReleaseGivesIdle ==
    (last.op = "release" /\ last.event.button = 1)
    => /\ ~dragging
       /\ selected_link = None /\ selected_node = NoNode
       /\ pan_start = Nothing /\ pan_origin = Nothing

\* The primary button has just been released outside the axes, after a drag
\* or a pan that moved something; the canvas is idle.
C8_Witness ==
    /\ last.op = "release"
    /\ last.event.button = 1 /\ ~last.event.inaxes
    /\ nChanges > 0
    /\ ~dragging /\ pan_start = Nothing

\* C9: a drag keeps its entity, and a pan its anchor and snapshot, through
\* every event but a release of the primary button.
C9_OnlyReleaseCancels ==
    [][ ~ (last'.op = "release" /\ last'.event.button = 1)
        => /\ (dragging /\ selected_link # None)
                => (dragging' /\ selected_link' = selected_link)
           /\ (dragging /\ selected_node # NoNode)
                => (dragging' /\ selected_node' = selected_node)
           /\ pan_start # Nothing
                => (pan_start' = pan_start /\ pan_origin' = pan_origin) ]_vars

\* C10: a move to pixel q during a pan sets the limits to the snapshot
\* translated by (-dx * sx, +dy * sy), with (dx, dy) = q - anchor and sx, sy
\* the snapshot's data units per pixel.
C10_PanFromSnapshot ==
    [][ ( /\ last'.op = "motion"
          /\ last'.event.inaxes /\ last'.event.button = 1
          /\ pan_start # Nothing /\ pan_origin # Nothing )
        => LET q == last'.event
               anchor == pan_start[1]
               snapshot == pan_origin[1]
               sx == RDiv(RSub(snapshot[1][2], snapshot[1][1]), RInt(FigWidthPx))
               sy == RDiv(RSub(snapshot[2][2], snapshot[2][1]), RInt(FigHeightPx))
               dx == RMul(RInt(q.x - anchor[1]), sx)
               dy == RMul(RInt(q.y - anchor[2]), sy)
           IN  /\ xlim' = << RSub(snapshot[1][1], dx), RSub(snapshot[1][2], dx) >>
               /\ ylim' = << RAdd(snapshot[2][1], dy), RAdd(snapshot[2][2], dy) >> ]_vars

(***************************************************************************)
(* SpecKinds: the user opens a links file with a self-loop or with a bare  *)
(* node and a link between equal ends, then presses, moves and releases    *)
(* the pointer.                                                            *)
(***************************************************************************)
KindFiles == { LoopFile, ChainFile }

NextKinds ==
    \/ /\ last.op = "init"
       /\ LoadLinks(KindFiles, SessionLayouts)
    \/ OnPress(InsideEvents(SessionPixels, { 1 }), MaxChanges)
    \/ OnRelease(ReleaseEvents, MaxChanges)
    \/ OnMotion(MotionEvents(SessionPixels), MaxChanges)

SpecKinds == Init /\ [][NextKinds]_vars

(***************************************************************************)
(* SpecLayout: a caller opens files and calls the canvas's apply_layout    *)
(* with any layout kind, known or not, while the layout functions of the   *)
(* chosen kinds return or raise.                                           *)
(***************************************************************************)
\* The kinds a caller passes: two of the known ones and an unknown one.
CallerLayoutTypes == LayoutTypes \cup { "grid" }

\* One apply_layout call of the links canvas.  The layouts of the known
\* kinds return Q or, when failing, raise; the plain spring_layout calls
\* (the lookup's default and the except branch) return P.
CallApplyLayoutLinks(choices) ==
    /\ canvas = "links"
    /\ \E layout_type \in CallerLayoutTypes, failing \in BOOLEAN :
         \E P \in LayoutMaps(Sorted(DOMAIN links), choices),
            Q \in LayoutMaps(Sorted(DOMAIN links), choices) :
            LET prov == [ k \in LayoutKinds \cup { "default", "fallback" } |->
                            IF k \in LayoutKinds
                            THEN [ ok |-> ~failing, pos |-> Q ]
                            ELSE [ ok |-> TRUE, pos |-> P ] ]
            IN  /\ Commit(L_apply_layout(Self, layout_type, prov))
                /\ last' = Last("apply_layout",
                                [ ok |-> TRUE, kind |-> layout_type,
                                  failed |-> failing, spring |-> P ])
                /\ UNCHANGED << canvas, zoom_slider, nChanges >>

\* One apply_layout call of the graph canvas.  The layout of a known kind
\* returns Q or, when failing, raises; P is what spring_layout would return.
CallApplyLayoutGraph(choices) ==
    /\ canvas = "graph"
    /\ \E layout_type \in CallerLayoutTypes, failing \in BOOLEAN :
         \E P \in LayoutMaps(graph.nodes, choices),
            Q \in LayoutMaps(graph.nodes, choices) :
            \E r \in { G_apply_layout(Self, layout_type, [ ok |-> ~failing, pos |-> Q ]) } :
                /\ Commit(r.c)
                /\ last' = Last("apply_layout",
                                [ ok |-> r.ok, kind |-> layout_type,
                                  failed |-> failing, spring |-> P ])
                /\ UNCHANGED << canvas, zoom_slider, nChanges >>

CallerLayouts == { 1, 2, 3 }

NextLayout ==
    \/ LoadLinks(LinksCsvFiles, SessionLayouts)
    \/ LoadGraph(GraphCsvFiles, SessionLayouts)
    \/ CallApplyLayoutLinks(CallerLayouts)
    \/ CallApplyLayoutGraph(CallerLayouts)

SpecLayout == Init /\ [][NextLayout]_vars

(***************************************************************************)
(* SpecParse: a links canvas loads one CSV file of up to MaxRows data      *)
(* rows, with fields that are empty, blank, integers or not numbers.       *)
(***************************************************************************)
MaxRows == 2

ParseFieldValues == { "", " ", " 1", "2", "x" }

\* Rows of two fields, a row of one field and a row of three.
ParseRows ==
    { << a, b >> : a \in ParseFieldValues, b \in ParseFieldValues }
        \cup { << "1" >>, << "1", "2", "x" >> }

ParseFiles ==
    { CsvFile(TRUE, << Header >> \o data) :
        data \in UNION { [ 1..n -> ParseRows ] : n \in 0..MaxRows } }
        \cup { UnreadableFile }

\* One load_links_from_csv call; the step records the file and the result.
CallLoadLinks(files) ==
    /\ canvas = "links"
    /\ \E file \in files :
         \E prov \in ProviderRuns(LayoutMaps(Sorted(DOMAIN ParseLinks(file.rows)),
                                             SessionLayouts)) :
            \E r \in { load_links_from_csv(Self, file, prov) } :
                /\ Commit(r.c)
                /\ last' = Last("load", [ ok |-> r.ok, file |-> file ])
                /\ UNCHANGED << canvas, zoom_slider, nChanges >>

NextParse ==
    /\ last.op = "init"
    /\ CallLoadLinks(ParseFiles)

SpecParse == Init /\ [][NextParse]_vars

(***************************************************************************)
(* SpecParseGraph: a graph canvas loads one CSV file of up to MaxRows data *)
(* rows, or the triangle with one row repeated; the labels are empty,      *)
(* blank, padded or plain.                                                 *)
(***************************************************************************)
GraphFieldValues == { "", " A", "A", "B ", "C" }

\* Rows of two fields, a row with a blank label, a row of one field.
GraphRows ==
    { << a, b >> : a \in GraphFieldValues, b \in GraphFieldValues }
        \cup { << " ", "C" >>, << "A" >> }

\* The triangle's rows followed by its first row again.
RepeatedTriangleFile == CsvFile(TRUE, TriangleFile.rows \o << << "A", "B" >> >>)

ParseGraphFiles ==
    { CsvFile(TRUE, << Header >> \o data) :
        data \in UNION { [ 1..n -> GraphRows ] : n \in 0..MaxRows } }
        \cup { UnreadableFile, TriangleFile, RepeatedTriangleFile }

\* One load_graph_from_csv call; the step records the file and the result.
CallLoadGraph(files) ==
    /\ canvas = "graph"
    /\ \E file \in files :
         \E prov \in ProviderRun(LayoutMaps(ParseGraph(file.rows).nodes, SessionLayouts)) :
            \E r \in { load_graph_from_csv(Self, file, prov) } :
                /\ Commit(r.c)
                /\ last' = Last("load", [ ok |-> r.ok, file |-> file ])
                /\ UNCHANGED << canvas, zoom_slider, nChanges >>

NextParseGraph ==
    /\ last.op = "init"
    /\ CallLoadGraph(ParseGraphFiles)

SpecParseGraph == Init /\ [][NextParseGraph]_vars

(***************************************************************************)
(* SpecHits: one session over a layout that puts the first two entities on *)
(* one point.  The user opens a file, then presses, moves and releases the *)
(* pointer over that point and over empty canvas.                          *)
(***************************************************************************)
OverlapLayouts == { 6 }

HitMotionEvents ==
    InsideEvents(SessionPixels, { 1 }) \cup { MouseEvent(TRUE, PixelLeft, PixelLow, 0) }

HitReleaseEvents == { MouseEvent(TRUE, PixelLeft, PixelLow, 1) }

NextHits ==
    \/ /\ last.op = "init"
       /\ \/ LoadLinks({ ChainFile }, OverlapLayouts)
          \/ LoadGraph({ TriangleFile }, OverlapLayouts)
    \/ OnPress(InsideEvents(SessionPixels, { 1 }), MaxChanges)
    \/ OnRelease(HitReleaseEvents, MaxChanges)
    \/ OnMotion(HitMotionEvents, MaxChanges)

SpecHits == Init /\ [][NextHits]_vars

(***************************************************************************)
(* SpecFit: the user opens files, applies layouts, resets the view and     *)
(* moves the zoom slider, in any order; the layouts are spread, collapsed  *)
(* on one point, or ten units wide along one axis.                         *)
(***************************************************************************)
FitLayouts == { 1, 3, 4, 5 }

NextFit ==
    \/ LoadLinks(LinksCsvFiles, FitLayouts)
    \/ LoadGraph(GraphCsvFiles, FitLayouts)
    \/ ApplyLayoutLinks(FitLayouts)
    \/ ApplyLayoutGraph(FitLayouts)
    \/ ResetView
    \/ AdjustZoom(SliderValues, MaxViewChanges)

SpecFit == Init /\ [][NextFit]_vars

(***************************************************************************)
(* Positions and the viewport under every control (SpecZoom).              *)
(***************************************************************************)
\* C11: between layout runs a step changes the position map only when it is
\* a move during a drag, and then it sets the dragged id's entry to the
\* pointer's data position and leaves every other entry alone; press,
\* release, hover, pan moves, scroll, the zoom slider and Reset View change
\* no position.
C11_PositionsMoveOnlyByDrag ==
    [][ last'.op \notin { "load", "apply_layout" }
        => \/ UNCHANGED << link_positions, pos >>
           \/ /\ last'.op = "motion"
              /\ last'.event.inaxes
              /\ dragging
              /\ canvas = "links" =>
                    /\ selected_link # None
                    /\ link_positions' = DSet(link_positions, selected_link,
                                              EventData(Self, last'.event))
                    /\ \A i \in 1..Len(link_positions) :
                           link_positions[i][1] # selected_link
                           => link_positions'[i] = link_positions[i]
              /\ canvas = "graph" =>
                    /\ selected_node # NoNode
                    /\ pos' = DSet(pos, selected_node, EventData(Self, last'.event))
                    /\ \A i \in 1..Len(pos) :
                           pos[i][1] # selected_node => pos'[i] = pos[i] ]_vars

\* A drag move has just put the selected link under the pointer, off the
\* point the layout gave it, and the other links are where the layout put
\* them.
C11_Witness ==
    /\ canvas = "links"
    /\ last.op = "motion"
    /\ dragging
    /\ selected_link # None
    /\ DGet(link_positions, selected_link, Origin) = EventData(Self, last.event)
    /\ link_positions # LayoutMap(Sorted(DOMAIN links), 1)
    /\ \A i \in 1..Len(link_positions) :
           link_positions[i][1] # selected_link
           => link_positions[i] = LayoutMap(Sorted(DOMAIN links), 1)[i]

\* C12: the x and y limits always have strictly positive width.
C12_ViewportNotDegenerate ==
    /\ RLt(xlim[1], xlim[2])
    /\ RLt(ylim[1], ylim[2])

\* The slider has just zoomed the view of a loaded model out.
C12_Witness ==
    /\ last.op = "adjust_zoom"
    /\ zoom_slider = 50
    /\ nChanges = 1
    /\ link_positions # << >> \/ pos # << >>
    /\ RLt(xlim[1], xlim[2])

(***************************************************************************)
(* Fitting the view (SpecFit).                                             *)
(***************************************************************************)
\* C13: once the graph canvas has fitted the view (a load, Apply Layout or
\* Reset View that returned normally, over non-empty positions), each axis
\* shows [min - pad, max + pad] of its coordinates, where pad is
\* max(0.2, 0.3 * extent) for a positive extent and 0.5 for a zero one.
C13_GraphFitPadding ==
    ( /\ canvas = "graph"
      /\ last.op \in { "load", "apply_layout", "reset_view" }
      /\ last.event = TRUE
      /\ pos # << >> )
    => LET all_x == { p[1] : p \in DValues(pos) }
           all_y == { p[2] : p \in DValues(pos) }
           Pad(extent) == IF RLt(Zero, extent)
                          THEN RMax(Rat(1, 5), RMul(Rat(3, 10), extent))
                          ELSE Rat(1, 2)
           pad_x == Pad(RSub(RSetMax(all_x), RSetMin(all_x)))
           pad_y == Pad(RSub(RSetMax(all_y), RSetMin(all_y)))
       IN  /\ xlim = << RSub(RSetMin(all_x), pad_x), RAdd(RSetMax(all_x), pad_x) >>
           /\ ylim = << RSub(RSetMin(all_y), pad_y), RAdd(RSetMax(all_y), pad_y) >>

\* Reset View has fitted nodes with x in [0, 10] and every y = 0: the view
\* is 16 wide and 1 high.
C13_Witness ==
    /\ canvas = "graph"
    /\ last.op = "reset_view"
    /\ { p[1] : p \in DValues(pos) } = { Zero, RInt(10) }
    /\ { p[2] : p \in DValues(pos) } = { Zero }
    /\ RSub(xlim[2], xlim[1]) = RInt(16)
    /\ RSub(ylim[2], ylim[1]) = One

\* C14: once the links canvas has fitted the view (a load, Apply Layout or
\* Reset View that returned normally, over non-empty positions), each axis
\* shows [min - pad, max + pad] of its coordinates, where pad is
\* max(0.2, 0.3 * extent) for a positive extent and 0.5 for a zero one.
C14_LinksFitPadding ==
    ( /\ canvas = "links"
      /\ last.op \in { "load", "apply_layout", "reset_view" }
      /\ last.event = TRUE
      /\ link_positions # << >> )
    => LET all_x == { p[1] : p \in DValues(link_positions) }
           all_y == { p[2] : p \in DValues(link_positions) }
           Pad(extent) == IF RLt(Zero, extent)
                          THEN RMax(Rat(1, 5), RMul(Rat(3, 10), extent))
                          ELSE Rat(1, 2)
           pad_x == Pad(RSub(RSetMax(all_x), RSetMin(all_x)))
           pad_y == Pad(RSub(RSetMax(all_y), RSetMin(all_y)))
       IN  /\ xlim = << RSub(RSetMin(all_x), pad_x), RAdd(RSetMax(all_x), pad_x) >>
           /\ ylim = << RSub(RSetMin(all_y), pad_y), RAdd(RSetMax(all_y), pad_y) >>

\* C15: when Reset View runs the canvas's fit (reset_view, auto_scale), the
\* fit of a non-empty position map sets the stored zoom level to 1.0, and
\* the fit of an empty one changes nothing: limits and zoom level stay, and
\* the limits are still the same after the command.
C15_FitResetsZoomOrNothing ==
    [][ last'.op = "reset_view"
        => LET fitted == IF canvas = "links" THEN reset_view(Self) ELSE auto_scale(Self)
               positions == IF canvas = "links" THEN link_positions ELSE pos
           IN  IF positions # << >>
               THEN /\ fitted.zoom_level = One
                    /\ zoom_level' = One
               ELSE /\ fitted.xlim = xlim
                    /\ fitted.ylim = ylim
                    /\ fitted.zoom_level = zoom_level
                    /\ xlim' = xlim
                    /\ ylim' = ylim ]_vars

\* Reset View has run on a links canvas without positions whose view the
\* slider had zoomed out: the view is still the zoomed one.
C15_Witness ==
    /\ canvas = "links"
    /\ last.op = "reset_view"
    /\ link_positions = << >>
    /\ xlim # << Zero, One >>

\* C16: a move of the zoom slider to value, over non-empty positions, gives
\* a view whose width and height are those of the last fit divided by
\* value / 100, around the centre the view had; so the view does not depend
\* on earlier slider moves.  (Between a fit and the slider moves of these
\* sessions no position changes, so the last fit's extent is the fit of the
\* current positions.)
C16_SliderZoomAbsolute ==
    [][ ( /\ last'.op = "adjust_zoom"
          /\ (IF canvas = "links" THEN link_positions ELSE pos) # << >> )
        => LET fitted == IF canvas = "links" THEN reset_view(Self) ELSE auto_scale(Self)
               level == Rat(last'.event, 100)
           IN  /\ RSub(xlim'[2], xlim'[1])
                    = RDiv(RSub(fitted.xlim[2], fitted.xlim[1]), level)
               /\ RSub(ylim'[2], ylim'[1])
                    = RDiv(RSub(fitted.ylim[2], fitted.ylim[1]), level)
               /\ RAdd(xlim'[1], xlim'[2]) = RAdd(xlim[1], xlim[2])
               /\ RAdd(ylim'[1], ylim'[2]) = RAdd(ylim[1], ylim[2]) ]_vars

(***************************************************************************)
(* The kinds of links (SpecKinds, SpecCommands).                           *)
(***************************************************************************)
\* C17: every link has an artist of exactly one kind, whichever of
\* _create_link_artist and _update_link_artist drew it last: the loop when
\* from and to are both the link's own id, else the arrow when from and to
\* are both present, else the circle of a bare node.
C17_LinkKindByEnds ==
    \A id \in DOMAIN links :
        /\ id \in DOMAIN link_artists
        /\ LET kinds == { link_artists[id][i].kind : i \in 1..Len(link_artists[id]) }
               from_id == links[id].from
               to_id == links[id].to
           IN  IF from_id = Some(id) /\ to_id = Some(id)
               THEN kinds = { "loop", "loop_arrow" }
               ELSE IF from_id # Nothing /\ to_id # Nothing
               THEN kinds = { "arrow" }
               ELSE kinds = { "circle" }

\* A drag move has redrawn a self-loop under the pointer, off the point the
\* layout gave it, next to a link the load drew.
C17_Witness ==
    /\ last.op = "motion"
    /\ dragging
    /\ selected_link \in DOMAIN links
    /\ links[selected_link].from = Some(selected_link)
    /\ links[selected_link].to = Some(selected_link)
    /\ link_artists[selected_link][1].kind = "loop"
    /\ link_artists[selected_link][1].p = EventData(Self, last.event)
    /\ link_artists[selected_link][1].p \notin DValues(LayoutMap(Sorted(DOMAIN links), 1))
    /\ \E id \in DOMAIN links : link_artists[id][1].kind = "arrow"

\* C18: after a load, get_stats reports as 'links' the number of links in
\* the store and as 'self_links' the number of links whose from and to are
\* both the link's own id.
C18_StatsCountSelfLoops ==
    ( /\ canvas = "links"
      /\ last.op = "load"
      /\ last.event = TRUE )
    => /\ get_stats(Self).links = Cardinality(DOMAIN links)
       /\ get_stats(Self).self_links
            = Cardinality({ id \in DOMAIN links :
                              links[id].from = Some(id) /\ links[id].to = Some(id) })

(***************************************************************************)
(* Layout fallback (SpecLayout).                                           *)
(***************************************************************************)
\* C19: an apply_layout call on a loaded canvas with a kind that is not one
\* of the five known ones, or during which the layout of the kind raises,
\* returns normally and leaves as position map the spring layout's result,
\* which covers every id.
C19_LayoutFallsBackToSpring ==
    [][ ( /\ last'.op = "apply_layout"
          /\ (IF canvas = "links" THEN links # << >> ELSE graph.nodes # << >>)
          /\ last'.event.kind \notin LayoutKinds \/ last'.event.failed )
        => /\ last'.event.ok
           /\ IF canvas = "links"
              THEN /\ link_positions' = last'.event.spring
                   /\ DKeys(link_positions') = DOMAIN links
              ELSE /\ pos' = last'.event.spring
                   /\ DKeys(pos') = { graph.nodes[i] : i \in 1..Len(graph.nodes) } ]_vars

(***************************************************************************)
(* Parsing a links file (SpecParse).                                       *)
(***************************************************************************)
\* C20: after the load of a readable file, the k-th row after the header
\* is link k when it has at least two columns and each of its first two
\* fields is blank or an integer, with an absent from / to for a blank
\* field and the integer for the other; a row with fewer columns or with a
\* non-numeric field gives no link, and there are no other links.
C20_RowsToLinks ==
    ( /\ canvas = "links"
      /\ last.op = "load"
      /\ last.event.file.readable )
    => LET data == Tail(last.event.file.rows)
           Numeric(s) == s \in DOMAIN IntOf
           Value(s) == IF Numeric(s) THEN Some(IntOf[s]) ELSE Nothing
       IN  /\ DOMAIN links \subseteq 1..Len(data)
           /\ \A k \in 1..Len(data) :
                IF /\ Len(data[k]) >= 2
                   /\ IsBlank(data[k][1]) \/ Numeric(data[k][1])
                   /\ IsBlank(data[k][2]) \/ Numeric(data[k][2])
                THEN /\ k \in DOMAIN links
                     /\ links[k].from = Value(data[k][1])
                     /\ links[k].to = Value(data[k][2])
                ELSE k \notin DOMAIN links

\* C20 as stated: every row after the header with at least two columns is a
\* link, with an absent from / to for a blank or non-numeric field.
C20_NonNumericKeepsRow ==
    ( /\ canvas = "links"
      /\ last.op = "load"
      /\ last.event.file.readable )
    => LET data == Tail(last.event.file.rows)
           Numeric(s) == s \in DOMAIN IntOf
           Value(s) == IF Numeric(s) THEN Some(IntOf[s]) ELSE Nothing
       IN  \A k \in 1..Len(data) :
               Len(data[k]) >= 2
               => /\ k \in DOMAIN links
                  /\ links[k].from = Value(data[k][1])
                  /\ links[k].to = Value(data[k][2])

\* A file whose first row has a non-numeric field and whose second row has
\* a blank one has been loaded: link 2 alone, with an absent from.
C20_Witness ==
    /\ canvas = "links"
    /\ last.op = "load"
    /\ last.event.ok
    /\ Len(last.event.file.rows) = 3
    /\ last.event.file.rows[2][1] = "x"
    /\ last.event.file.rows[3] = << " ", " 1" >>
    /\ DOMAIN links = { 2 }
    /\ links[2] = [ from |-> Nothing, to |-> Some(1) ]

(***************************************************************************)
(* Parsing a graph file (SpecParseGraph).                                  *)
(***************************************************************************)
\* C21: after a successful load of the graph canvas, the nodes are exactly
\* the distinct trimmed labels of the kept rows, each once, and the edges
\* are exactly the distinct ordered pairs (from, to) of the kept rows; a row
\* is kept iff it has at least two columns and both trimmed values are
\* non-empty.
C21_GraphIsSetOfRows ==
    ( /\ canvas = "graph"
      /\ last.op = "load"
      /\ last.event.ok )
    => LET data == Tail(last.event.file.rows)
           kept == { k \in 1..Len(data) :
                       /\ Len(data[k]) >= 2
                       /\ Strip(data[k][1]) # ""
                       /\ Strip(data[k][2]) # "" }
           labels == { Strip(data[k][1]) : k \in kept } \cup { Strip(data[k][2]) : k \in kept }
       IN  /\ { graph.nodes[i] : i \in 1..Len(graph.nodes) } = labels
           /\ Len(graph.nodes) = Cardinality(labels)
           /\ graph.edges = { << Strip(data[k][1]), Strip(data[k][2]) >> : k \in kept }

\* The triangle A -> B -> C -> A with its first row repeated has been
\* loaded: three nodes and three edges.
C21_Witness ==
    /\ canvas = "graph"
    /\ last.op = "load"
    /\ last.event.ok
    /\ last.event.file = RepeatedTriangleFile
    /\ Len(graph.nodes) = 3
    /\ Cardinality(graph.edges) = 3

(***************************************************************************)
(* apply_layout on an empty canvas (SpecLayout).                           *)
(***************************************************************************)
\* C22 as stated: an apply_layout call on a canvas that holds no entities
\* (none loaded yet) fails: the call does not return normally.
C22_EmptyApplyLayoutFails ==
    [][ ( /\ last'.op = "apply_layout"
          /\ IF canvas = "links" THEN links = << >> ELSE graph.nodes = << >> )
        => ~last'.event.ok ]_vars

\* C22, amended: an apply_layout call on a canvas that holds no entities
\* returns normally and changes nothing of the canvas.
C22_EmptyApplyLayoutIsNoOp ==
    [][ ( /\ last'.op = "apply_layout"
          /\ IF canvas = "links" THEN links = << >> ELSE graph.nodes = << >> )
        => /\ last'.event.ok
           /\ UNCHANGED << linksVars, graphVars, dragging, panVars, viewVars,
                           ax_children >> ]_vars

\* apply_layout has just been called on a graph canvas without nodes.
C22_Witness ==
    /\ canvas = "graph"
    /\ last.op = "apply_layout"
    /\ last.event.ok
    /\ graph.nodes = << >>
    /\ pos = << >>

(***************************************************************************)
(* Radii, hit tests and hover (Spec, SpecZoom).                            *)
(***************************************************************************)
\* C23: in the links canvas the circle of every bare-node link is drawn
\* with the radius _get_link_at_position tests with, 15 pixels in data
\* units of the current limits.
C23_LinkHitRadiusIsRenderRadius ==
    canvas = "links"
    => \A id \in DOMAIN link_artists :
         \A i \in 1..Len(link_artists[id]) :
             link_artists[id][i].kind = "circle"
             => link_artists[id][i].r = NodeRadius(Self)

\* C25: the arrow of a regular link does not end on the stored position of
\* a self-loop it references: on the side whose id is a self-loop link L the
\* arrow's end is a point off L's position (on L's loop, towards the other
\* end).
C25_LoopEndOffRawPosition ==
    canvas = "links"
    => \A id \in DOMAIN link_artists :
         LET IsLoop(ref) == /\ ref # Nothing
                            /\ ref[1] \in DOMAIN links
                            /\ links[ref[1]].from = ref
                            /\ links[ref[1]].to = ref
             from_id == links[id].from
             to_id == links[id].to
             arrow == link_artists[id][1]
         IN  ( /\ from_id # Nothing
               /\ to_id # Nothing
               /\ ~(from_id = Some(id) /\ to_id = Some(id)) )
             => /\ IsLoop(from_id) => arrow.p # DGet(link_positions, from_id[1], Origin)
                /\ IsLoop(to_id) => arrow.q # DGet(link_positions, to_id[1], Origin)

\* C26: the arrow of a regular link ends, on the side that references id r,
\* at the midpoint of the positions of r's from and r's to when r is a
\* regular link (both present, not a self-loop), and at r's own stored
\* position (the origin if it has none) when r is a bare node or not a link
\* id.
C26_MidpointIffRegular ==
    canvas = "links"
    => \A id \in DOMAIN link_artists :
         LET Regular(k) == /\ k \in DOMAIN links
                           /\ links[k].from # Nothing
                           /\ links[k].to # Nothing
                           /\ ~(links[k].from = Some(k) /\ links[k].to = Some(k))
             Loop(k) == /\ k \in DOMAIN links
                        /\ links[k].from = Some(k)
                        /\ links[k].to = Some(k)
             End(r) == IF Regular(r)
                       THEN Midpoint(DGet(link_positions, links[r].from[1], Origin),
                                     DGet(link_positions, links[r].to[1], Origin))
                       ELSE DGet(link_positions, r, Origin)
             arrow == link_artists[id][1]
         IN  Regular(id)
             => /\ ~Loop(links[id].from[1]) => arrow.p = End(links[id].from[1])
                /\ ~Loop(links[id].to[1]) => arrow.q = End(links[id].to[1])

C28_NodeRadiusTracksView ==
    canvas = "graph"
    => \A n \in DOMAIN node_artists : node_artists[n].r = NodeRadius(Self)

\* C29: a motion event outside the axes leaves no entity hovered and keeps
\* the drag and pan state (dragging, the selection, pan_start, pan_origin),
\* every position and both limits as they were, so that the drag or pan
\* goes on when the pointer comes back.
C29_LeavingClearsOnlyHover ==
    [][ ( last'.op = "motion" /\ ~last'.event.inaxes )
        => /\ canvas = "links" => hovered_link' = None
           /\ canvas = "graph" => hovered_node' = NoNode
           /\ UNCHANGED << dragging, selected_link, selected_node,
                           pan_start, pan_origin,
                           link_positions, pos, xlim, ylim >> ]_vars

\* The pointer has left the axes in the middle of a drag.
C29_Witness ==
    /\ last.op = "motion" /\ ~last.event.inaxes
    /\ canvas = "links"
    /\ dragging /\ selected_link # None
    /\ hovered_link = None

\* C30: at the end of every motion event inside the axes that is handled
\* with no pan in progress (pan_start is set and cleared by press and release
\* only), the hovered entity is the one the hit test finds
\* under the pointer on the positions as they stand at the end of the handler.
C30_HoverIsEntityUnderPointer ==
    ( last.op = "motion" /\ last.event.inaxes /\ pan_start = Nothing )
    => /\ canvas = "links"
          => hovered_link = _get_link_at_position(Self, EventData(Self, last.event))
       /\ canvas = "graph"
          => hovered_node = get_node_at_position(Self, EventData(Self, last.event))

PixelOnAxis == AxBottom + AxHeight \div 7

AnchorLayouts == { 1, 5 }

AnchorScrollEvents ==
    InsideEvents({ << PixelLeft, PixelLow >>, << PixelLeft, PixelOnAxis >> },
                 { "up", "down" })
    \cup { OutsideEvent("up") }

NextAnchor ==
    \/ /\ last.op = "init"
       /\ \/ LoadLinks({ ChainFile }, AnchorLayouts)
          \/ LoadGraph({ TriangleFile }, AnchorLayouts)
    \/ OnScroll(AnchorScrollEvents, MaxChanges)

SpecAnchor == Init /\ [][NextAnchor]_vars

\* ---------------------------------------------------------------------
\* Scroll, shapes on the axes and consistency of the state (Spec,
\* SpecCommands, SpecKinds).
\* ---------------------------------------------------------------------

\* C31: a scroll inside the axes divides the width and the height of the
\* limits by the factor (5/4 for up, 4/5 for down), multiplies zoom_level by
\* it and keeps dragging, the selection, the hover, the pan state and every
\* position; a scroll outside the axes changes nothing.
C31_ScrollChangesOnlyView ==
    [][ last'.op = "scroll"
        => IF last'.event.inaxes
           THEN LET factor == ZoomFactor(last'.event.button)
                IN  /\ RSub(xlim'[2], xlim'[1]) = RDiv(RSub(xlim[2], xlim[1]), factor)
                    /\ RSub(ylim'[2], ylim'[1]) = RDiv(RSub(ylim[2], ylim[1]), factor)
                    /\ zoom_level' = RMul(zoom_level, factor)
                    /\ UNCHANGED << dragging, selected_link, selected_node,
                                    hovered_link, hovered_node,
                                    pan_start, pan_origin, link_positions, pos >>
           ELSE UNCHANGED << linksVars, graphVars, viewVars, panVars,
                             dragging, ax_children, zoom_slider >> ]_vars

\* A scroll inside the axes has been handled in the middle of a drag.
C31_Witness ==
    /\ last.op = "scroll" /\ last.event.inaxes
    /\ dragging
    /\ zoom_level # One

\* C32: a scroll inside the axes zooms about the cursor's data coordinate on
\* each axis, whatever its value: the new limits are centred on it.
C32_ScrollAnchorIsCursor ==
    [][ ( last'.op = "scroll" /\ last'.event.inaxes )
        => /\ RDiv(RAdd(xlim'[1], xlim'[2]), RInt(2)) = XData(Self, last'.event.x)
           /\ RDiv(RAdd(ylim'[1], ylim'[2]), RInt(2)) = YData(Self, last'.event.y) ]_vars

\* C33: the shapes on the axes are exactly the shapes the artist dicts
\* refer to, each as many times as it is referred to: no shape stays on the
\* axes once its dict entry has been replaced.
C33_NoOrphanShapes ==
    LET linkRefs(s) ==
            Cardinality({ r \in UNION { { << id, i >> : i \in DOMAIN link_artists[id] } :
                                        id \in DOMAIN link_artists } :
                          link_artists[r[1]][r[2]] = s })
        graphRefs(s) ==
            Cardinality({ n \in DOMAIN node_artists : node_artists[n] = s })
            + Cardinality({ e \in DOMAIN edge_artists : edge_artists[e] = s })
        refs(s) == IF canvas = "links" THEN linkRefs(s) ELSE graphRefs(s)
        referred ==
            IF canvas = "links"
            THEN UNION { { link_artists[id][i] : i \in DOMAIN link_artists[id] } :
                         id \in DOMAIN link_artists }
            ELSE { node_artists[n] : n \in DOMAIN node_artists }
                 \cup { edge_artists[e] : e \in DOMAIN edge_artists }
    IN  /\ referred \subseteq DOMAIN ax_children
        /\ \A s \in DOMAIN ax_children : ax_children[s] = refs(s)

\* C34: the hovered and the selected entity are each either none or an
\* entity of the current links, respectively of the current graph.
C34_InteractionIdsInStore ==
    /\ canvas = "links"
       => /\ hovered_link # None => hovered_link \in DOMAIN links
          /\ selected_link # None => selected_link \in DOMAIN links
    /\ canvas = "graph"
       => LET nodes == { graph.nodes[i] : i \in 1..Len(graph.nodes) }
          IN  /\ hovered_node # NoNode => hovered_node \in nodes
              /\ selected_node # NoNode => selected_node \in nodes

C36_FlagsPairwiseConsistent ==
    /\ canvas = "links" => (dragging <=> selected_link # None)
    /\ canvas = "graph" => (dragging <=> selected_node # NoNode)
    /\ pan_start # Nothing <=> pan_origin # Nothing

\* The button has been released after a drag that moved a node of the graph.
C36_Witness ==
    /\ canvas = "graph"
    /\ last.op = "release" /\ last.event.button = 1
    /\ ~dragging /\ selected_node = NoNode
    /\ pan_start = Nothing /\ pan_origin = Nothing
    /\ \E i \in 1..Len(pos) :
          \A k \in 1..Len(LayoutPoints) : pos[i][2] # LayoutPoints[k]

\* C37: a pan move (a motion inside the axes with the left button while a
\* pan is in progress) leaves the width and the height of the limits as
\* they were right before the move, also when scrolls came in between.
C37_PanKeepsSize ==
    [][ ( /\ last'.op = "motion"
          /\ last'.event.inaxes /\ last'.event.button = 1
          /\ pan_start # Nothing /\ pan_origin # Nothing )
        => /\ RSub(xlim'[2], xlim'[1]) = RSub(xlim[2], xlim[1])
           /\ RSub(ylim'[2], ylim'[1]) = RSub(ylim[2], ylim[1]) ]_vars

(***************************************************************************)
(* SpecProviders: apply_layout of the links canvas with the layout         *)
(* functions failing one at a time.  The requested kind's function gives   *)
(* own, nx.spring_layout(G) in the default and the fallback gives spring.  *)
(***************************************************************************)
FailingKinds == LayoutKinds \cup { "none" }

CallApplyLayoutOneFailing(choices) ==
    /\ canvas = "links"
    /\ \E layout_type \in LayoutKinds, failed \in FailingKinds :
         \E P \in LayoutMaps(Sorted(DOMAIN links), choices),
            Q \in LayoutMaps(Sorted(DOMAIN links), choices) :
            LET prov == [ k \in LayoutKinds \cup { "default", "fallback" } |->
                            IF k \in LayoutKinds
                            THEN [ ok |-> k # failed, pos |-> Q ]
                            ELSE [ ok |-> TRUE, pos |-> P ] ]
            IN  /\ Commit(L_apply_layout(Self, layout_type, prov))
                /\ last' = Last("apply_layout",
                                [ ok |-> TRUE, kind |-> layout_type,
                                  failed |-> failed, own |-> Q, spring |-> P ])
                /\ UNCHANGED << canvas, zoom_slider, nChanges >>

NextProviders ==
    \/ LoadLinks(LinksCsvFiles, SessionLayouts)
    \/ CallApplyLayoutOneFailing(CallerLayouts)

SpecProviders == Init /\ [][NextProviders]_vars

\* C38: in the links canvas an apply_layout call for a known kind whose own
\* layout function returns installs that function's result, also when the
\* layout function of another kind raises; the spring fallback is installed
\* only when the requested kind's own function raises.
C38_RequestedLayoutHonoured ==
    [][ ( /\ last'.op = "apply_layout"
          /\ canvas = "links" /\ links # << >> )
        => IF last'.event.failed # last'.event.kind
           THEN link_positions' = last'.event.own
           ELSE link_positions' = last'.event.spring ]_vars

(***************************************************************************)
(* SpecDrag: drags in the links canvas over files with a self-loop, bare   *)
(* nodes and regular links, among them a link between two other links.    *)
(***************************************************************************)
\* Link 1 runs from link 2 to link 3, both bare nodes.
BridgeFile ==
    CsvFile(TRUE, << Header, << "2", "3" >>, << "", "" >>, << "", "" >> >>)

DragFiles == { LoopFile, ChainFile, BridgeFile }

NextDrag ==
    \/ /\ last.op = "init"
       /\ LoadLinks(DragFiles, SessionLayouts)
    \/ OnPress(InsideEvents(SessionPixels, { 1 }), MaxChanges)
    \/ OnRelease(HitReleaseEvents, MaxChanges)
    \/ OnMotion(InsideEvents(SessionPixels, { 1 }), MaxChanges)

SpecDrag == Init /\ [][NextDrag]_vars

\* C39: in the links canvas a drag move that changes the position of the
\* selected link changes that link's own shapes, whatever its kind.
C39_DragMovesOwnShape ==
    [][ ( /\ last'.op = "motion"
          /\ canvas = "links"
          /\ dragging /\ selected_link # None
          /\ selected_link \in DOMAIN link_artists
          /\ DGet(link_positions', selected_link, Origin)
             # DGet(link_positions, selected_link, Origin) )
        => link_artists'[selected_link] # link_artists[selected_link] ]_vars

====
